---- MODULE Spec2Model ----
(***************************************************************************)
(* RescueBot.AI: the simulation/control stack of src/App.tsx (scheduler,   *)
(* state machine, decision application, decision orchestrator with its     *)
(* retries), src/services/navigation.ts (A* planner, control step),        *)
(* src/services/telemetry.ts (metrics) and the perception layer            *)
(* (scanEnvironment).                                                      *)
(*                                                                         *)
(* Battery values are kept in eighths of a percent so that every drain the *)
(* code computes (0.5 * cost * speedMultiplier * batteryDrainRate with     *)
(* multipliers that are multiples of 0.5) is an exact integer, as it is an *)
(* exact double in the program.                                            *)
(***************************************************************************)
EXTENDS Integers, Sequences, FiniteSets, TLC

VARIABLES
  grid,       \* App state `grid`: Coordinates -> Cell (the "truth" grid with fog of war)
  robot,      \* App state `robot`: RobotState
  isRunning,  \* App state `isRunning`
  pending,    \* runIntelligenceLayer calls suspended at the await, oldest first:
              \* the position and grid each call captured, and whether a RESET
              \* happened since it was issued
  requests,   \* how many decision requests were issued so far
  resets,     \* how many times RESET was pressed
  robotConfig,\* onboarding store `robotConfig` (multipliers in halves, 0 = unset)
  metrics,    \* App state `metrics`: SimulationMetrics (money in eighths of a cent;
              \* the two histories are kept as their length, stepsTaken, and the
              \* battery level of the newest batteryHistory entry)
  call,       \* harness for direct calls of the pure functions
  onboarding, \* onboarding store: hasCompletedOnboarding and scenarioConfig (its
              \* third field is robotConfig above)
  wizard,     \* WizardModal state (currentStep, selectedScenario, selectedRobot) and
              \* the showValidation flag of the mounted step component
  logs        \* App state `robot.logs`, kept as its newest part: the LogEntry
              \* records (source and type) appended by the last handler or
              \* tick that appended any, oldest first

vars == << grid, robot, isRunning, pending, requests, resets, robotConfig, metrics, call, onboarding, wizard, logs >>

\* ------------------------------------------------------------------------
\* Bounds and program constants
\* ------------------------------------------------------------------------

\* Side of the grid: the program's GRID_SIZE, which is 15, scaled down to a
\* grid the sensor window (radius 2) does not cover from the origin.
GRID_SIZE == 4

\* Full battery in percent.  The program uses 100; the model scales it down
\* so that depletion is reached within a short mission.
MAX_BATTERY == 20

\* Number of decision requests the model follows.
MaxRequests == 3

\* Number of times RESET may be pressed after the initial load.
MaxResets == 1

CHARGING_RATE == 10

SENSOR_RADIUS == 2

MAX_HEALTH == 100

\* Battery percent -> model units (eighths of a percent).
Pct(p) == 8 * p

Abs(n) == IF n < 0 THEN -n ELSE n

Coord(cx, cy) == [x |-> cx, y |-> cy]

Coordinates == { Coord(cx, cy) : cx \in 0..(GRID_SIZE - 1), cy \in 0..(GRID_SIZE - 1) }

InBounds(nx, ny) == nx >= 0 /\ nx < GRID_SIZE /\ ny >= 0 /\ ny < GRID_SIZE

CellType == {"EMPTY", "WALL", "DEBRIS", "FIRE", "VICTIM", "START"}

MOVEMENT_COST(type) ==
  CASE type = "EMPTY"  -> 1
    [] type = "START"  -> 1
    [] type = "DEBRIS" -> 3
    [] type = "WALL"   -> 999
    [] type = "FIRE"   -> 5
    [] type = "VICTIM" -> 1

\* A cell as initSimulation builds it: difficulty is MOVEMENT_COST[type].
Cell(type, revealed) ==
  [type |-> type, revealed |-> revealed, difficulty |-> MOVEMENT_COST(type)]

\* ------------------------------------------------------------------------
\* Path planner (A*), src/services/navigation.ts planPath
\* ------------------------------------------------------------------------

\* A node is [x, y, g, h, f, parent]; parent holds the chain of ancestors'
\* coordinates from the start node down to the node's parent (<<>> for the
\* start node, whose parent is null).

\* The four neighbour offsets, in the order the code visits them.
neighbors == << Coord(0, -1), Coord(0, 1), Coord(-1, 0), Coord(1, 0) >>

RECURSIVE InsertByF(_, _)
InsertByF(sorted, node) ==
  IF sorted = << >> THEN << node >>
  ELSE IF Head(sorted).f <= node.f
       THEN << Head(sorted) >> \o InsertByF(Tail(sorted), node)
       ELSE << node >> \o sorted

RECURSIVE SortFrom(_, _, _)
SortFrom(list, i, acc) ==
  IF i > Len(list) THEN acc ELSE SortFrom(list, i + 1, InsertByF(acc, list[i]))

RECURSIVE Reverse(_)
Reverse(list) ==
  IF list = << >> THEN << >> ELSE Append(Reverse(Tail(list)), Head(list))

\* The sort with the comparator's operands swapped (b.f - a.f).
SortByFDescending(openList) == Reverse(SortFrom(openList, 1, << >>))

\* openList.sort((a, b) => a.f - b.f): a stable sort by f.
SortByF(openList) == SortFrom(openList, 1, << >>)

\* Mutant of Blocked: every Wall blocks, revealed or not.
BlockedAnyWall(cell) == cell.type = "WALL"

\* cell.type === WALL && cell.revealed
Blocked(cell) == cell.type = "WALL" /\ cell.revealed

\* openList.find(n => n.x === nx && n.y === ny) as the set of matching indices
FindInOpen(openList, nx, ny) ==
  { i \in 1..Len(openList) : openList[i].x = nx /\ openList[i].y = ny }

\* existingNode && gCost >= existingNode.g
Dominated(openList, nx, ny, gCost) ==
  \E i \in FindInOpen(openList, nx, ny) :
    /\ \A j \in FindInOpen(openList, nx, ny) : i <= j
    /\ gCost >= openList[i].g

\* The iteration that pushes the neighbour whether or not its coordinates
\* are already queued.
VisitNeighborAlwaysPush(openList, closedList, currentNode, target, worldModel, k) ==
  LET nx == currentNode.x + neighbors[k].x
      ny == currentNode.y + neighbors[k].y
  IN IF ~InBounds(nx, ny) THEN openList
     ELSE IF Coord(nx, ny) \in closedList THEN openList
     ELSE LET cell  == worldModel[Coord(nx, ny)]
              gCost == currentNode.g + MOVEMENT_COST(cell.type)
              hCost == Abs(nx - target.x) + Abs(ny - target.y)
              neighborNode == [x |-> nx, y |-> ny, g |-> gCost, h |-> hCost,
                               f |-> gCost + hCost,
                               parent |-> Append(currentNode.parent,
                                                 Coord(currentNode.x, currentNode.y))]
          IN IF Blocked(cell) THEN openList
             ELSE IF Dominated(openList, nx, ny, gCost) THEN openList
             ELSE Append(openList, neighborNode)

\* One iteration of the neighbour loop: the open list after offset k.
VisitNeighbor(openList, closedList, currentNode, target, worldModel, k) ==
  LET nx == currentNode.x + neighbors[k].x
      ny == currentNode.y + neighbors[k].y
  IN IF ~InBounds(nx, ny) THEN openList
     ELSE IF Coord(nx, ny) \in closedList THEN openList
     ELSE LET cell  == worldModel[Coord(nx, ny)]
              gCost == currentNode.g + MOVEMENT_COST(cell.type)
              hCost == Abs(nx - target.x) + Abs(ny - target.y)
              neighborNode == [x |-> nx, y |-> ny, g |-> gCost, h |-> hCost,
                               f |-> gCost + hCost,
                               parent |-> Append(currentNode.parent,
                                                 Coord(currentNode.x, currentNode.y))]
          IN IF Blocked(cell) THEN openList
             ELSE IF Dominated(openList, nx, ny, gCost) THEN openList
             ELSE IF FindInOpen(openList, nx, ny) = {}
                  THEN Append(openList, neighborNode)
                  ELSE openList

RECURSIVE VisitNeighbors(_, _, _, _, _, _)
VisitNeighbors(openList, closedList, currentNode, target, worldModel, k) ==
  IF k > Len(neighbors) THEN openList
  ELSE VisitNeighbors(
         VisitNeighbor(openList, closedList, currentNode, target, worldModel, k),
         closedList, currentNode, target, worldModel, k + 1)

\* Mutant of ReconstructPath: the slice(1) is forgotten, the start stays in.
ReconstructPathKeepStart(node) == Append(node.parent, Coord(node.x, node.y))

\* path.reverse().slice(1): the chain from the start to the node, start excluded
ReconstructPath(node) == Tail(Append(node.parent, Coord(node.x, node.y)))

RECURSIVE SearchLoop(_, _, _, _)
SearchLoop(openList, closedList, target, worldModel) ==
  IF openList = << >> THEN << >>
  ELSE LET sorted      == SortByF(openList)
           currentNode == Head(sorted)
       IN IF currentNode.x = target.x /\ currentNode.y = target.y
          THEN ReconstructPath(currentNode)
          ELSE SearchLoop(
                 VisitNeighbors(Tail(sorted),
                                closedList \cup {Coord(currentNode.x, currentNode.y)},
                                currentNode, target, worldModel, 1),
                 closedList \cup {Coord(currentNode.x, currentNode.y)},
                 target, worldModel)

planPath(start, target, worldModel) ==
  LET startNode == [x |-> start.x, y |-> start.y, g |-> 0, h |-> 0, f |-> 0,
                    parent |-> << >>]
  IN SearchLoop(<< startNode >>, {}, target, worldModel)

\* ------------------------------------------------------------------------
\* Perception layer, scanEnvironment
\* ------------------------------------------------------------------------

\* The (dx, dy) offsets of the sensor window in loop order (dy outer, dx inner).
WindowOffsets ==
  [k \in 1..((2 * SENSOR_RADIUS + 1) * (2 * SENSOR_RADIUS + 1)) |->
     [dx |-> ((k - 1) % (2 * SENSOR_RADIUS + 1)) - SENSOR_RADIUS,
      dy |-> ((k - 1) \div (2 * SENSOR_RADIUS + 1)) - SENSOR_RADIUS]]

InWindow(c, robotPos) ==
  \E k \in DOMAIN WindowOffsets :
    c.x = robotPos.x + WindowOffsets[k].dx /\ c.y = robotPos.y + WindowOffsets[k].dy

\* Mutant of ScanMapState: the belief is rebuilt from the window alone.
ScanMapStateWindowOnly(truthGrid, robotPos) ==
  [c \in Coordinates |-> [truthGrid[c] EXCEPT !.revealed = InWindow(c, robotPos)]]

\* newMapState: a copy of the grid with every in-bounds window cell revealed.
ScanMapState(truthGrid, robotPos) ==
  [c \in Coordinates |->
     IF InWindow(c, robotPos) /\ ~truthGrid[c].revealed
     THEN [truthGrid[c] EXCEPT !.revealed = TRUE]
     ELSE truthGrid[c]]

\* The readings with the distance measured along the longer axis only.
ScanReadingsChebyshev(truthGrid, robotPos) ==
  LET Inside(o) == InBounds(robotPos.x + o.dx, robotPos.y + o.dy)
      inside    == SelectSeq(WindowOffsets, Inside)
  IN [i \in 1..Len(inside) |->
        [coordinates |-> Coord(robotPos.x + inside[i].dx, robotPos.y + inside[i].dy),
         type        |-> truthGrid[Coord(robotPos.x + inside[i].dx,
                                         robotPos.y + inside[i].dy)].type,
         distance    |-> IF Abs(inside[i].dx) >= Abs(inside[i].dy)
                         THEN Abs(inside[i].dx) ELSE Abs(inside[i].dy)]]

\* readings: one per in-bounds window cell, in loop order.
ScanReadings(truthGrid, robotPos) ==
  LET Inside(o) == InBounds(robotPos.x + o.dx, robotPos.y + o.dy)
      inside    == SelectSeq(WindowOffsets, Inside)
  IN [i \in 1..Len(inside) |->
        [coordinates |-> Coord(robotPos.x + inside[i].dx, robotPos.y + inside[i].dy),
         type        |-> truthGrid[Coord(robotPos.x + inside[i].dx,
                                         robotPos.y + inside[i].dy)].type,
         distance    |-> Abs(inside[i].dx) + Abs(inside[i].dy)]]

scanEnvironment(truthGrid, robotPos) ==
  [readings    |-> ScanReadings(truthGrid, robotPos),
   newMapState |-> ScanMapState(truthGrid, robotPos)]

\* ------------------------------------------------------------------------
\* Control layer, src/services/navigation.ts executeControlStep
\* ------------------------------------------------------------------------

\* robotConfig?.speedMultiplier || 1.0, in halves
SpeedOf(config) == IF config.speedMultiplier = 0 THEN 2 ELSE config.speedMultiplier

\* robotConfig?.batteryDrainRate || 1.0, in halves
DrainRateOf(config) == IF config.batteryDrainRate = 0 THEN 2 ELSE config.batteryDrainRate

Max(a, b) == IF a >= b THEN a ELSE b

Min(a, b) == IF a <= b THEN a ELSE b

\* The drain without the speed multiplier.
MoveDrainNoSpeed(cellType, config) ==
  (Pct(1) * MOVEMENT_COST(cellType) * 2 * DrainRateOf(config)) \div 8

\* 0.5 * cost * speedMultiplier * batteryDrainRate percent, in eighths of a percent
MoveDrain(cellType, config) ==
  (Pct(1) * MOVEMENT_COST(cellType) * SpeedOf(config) * DrainRateOf(config)) \div 8

\* The control step without its physics check.
executeControlStepNoPhysicsCheck(currentPos, nextPos, currentBattery, cellType, config) ==
  [success |-> TRUE,
   newBattery |-> Max(0, currentBattery - MoveDrain(cellType, config)),
   message |-> ""]

executeControlStep(currentPos, nextPos, currentBattery, cellType, config) ==
  IF cellType = "WALL"
  THEN [success |-> FALSE, newBattery |-> currentBattery,
        message |-> "COLLISION DETECTED"]
  ELSE [success |-> TRUE,
        newBattery |-> Max(0, currentBattery - MoveDrain(cellType, config)),
        message |-> ""]

\* ------------------------------------------------------------------------
\* Scenario generation, initSimulation
\* ------------------------------------------------------------------------

\* Absent coordinates (currentGoal: null, a decision without targetCoordinates)
NoCoord == Coord(-1, -1)

\* A grid as initSimulation generates it from the obstacles and hazards drawn:
\* Start at the origin, the 2x2 patch at the origin revealed, hazards only on
\* cells left Empty and with x > 2 or y > 2, difficulty fixed before hazards
\* are placed.
GeneratedGridNoStart(walls, debris, victims, fires) ==
  [c \in Coordinates |->
     LET base == IF c \in walls THEN "WALL"
                 ELSE IF c \in debris THEN "DEBRIS"
                 ELSE "EMPTY"
         placeable == base = "EMPTY" /\ (c.x > 2 \/ c.y > 2)
     IN [type       |-> IF placeable /\ c \in victims THEN "VICTIM"
                        ELSE IF placeable /\ c \in fires THEN "FIRE"
                        ELSE base,
         revealed   |-> c.x < 2 /\ c.y < 2,
         difficulty |-> MOVEMENT_COST(base)]]

GeneratedGrid(walls, debris, victims, fires) ==
  [c \in Coordinates |->
     LET base == IF c = Coord(0, 0) THEN "START"
                 ELSE IF c \in walls THEN "WALL"
                 ELSE IF c \in debris THEN "DEBRIS"
                 ELSE "EMPTY"
         placeable == base = "EMPTY" /\ (c.x > 2 \/ c.y > 2)
     IN [type       |-> IF placeable /\ c \in victims THEN "VICTIM"
                        ELSE IF placeable /\ c \in fires THEN "FIRE"
                        ELSE base,
         revealed   |-> c.x < 2 /\ c.y < 2,
         difficulty |-> MOVEMENT_COST(base)]]

\* The outcome of the random generation the model explores:
\*     S . . V
\*     . W D V
\*     . . . F
\*     . . . W
ScenarioGrids ==
  { GeneratedGrid({ Coord(1, 1), Coord(3, 3) }, { Coord(2, 1) },
                  { Coord(3, 0), Coord(3, 1) }, { Coord(3, 2) }) }

\* robotConfig values the onboarding store may hold (0 = unset, multipliers in
\* halves).
RobotConfigs ==
  { [speedMultiplier |-> 0, batteryDrainRate |-> 0, maxHealth |-> 0],
    [speedMultiplier |-> 4, batteryDrainRate |-> 3, maxHealth |-> 80] }

\* The store's null robotConfig: no field set.
NoRobot == [speedMultiplier |-> 0, batteryDrainRate |-> 0, maxHealth |-> 0]

\* The store's null scenarioConfig.
NoScenario == "null"

\* Scenario library (constants), by id.
SCENARIOS == { "random", "dense_debris", "inferno", "search_party" }

\* Robot profiles the wizard offers (multipliers in halves).
ROBOT_TYPES ==
  { [speedMultiplier |-> 4, batteryDrainRate |-> 3, maxHealth |-> 80],
    [speedMultiplier |-> 2, batteryDrainRate |-> 2, maxHealth |-> 100],
    [speedMultiplier |-> 1, batteryDrainRate |-> 1, maxHealth |-> 150] }

\* Onboarding store as created (with robotConfig = NoRobot).
InitialOnboarding == [hasCompletedOnboarding |-> FALSE, scenarioConfig |-> NoScenario]

\* The store a mission with the given robotConfig runs on.
OnboardingHolding(config) ==
  IF config = NoRobot THEN InitialOnboarding
  ELSE [hasCompletedOnboarding |-> TRUE, scenarioConfig |-> "random"]

\* WizardModal as mounted: welcome step, nothing selected, no validation shown.
InitialWizard ==
  [currentStep |-> 0, selectedScenario |-> NoScenario, selectedRobot |-> NoRobot,
   showValidation |-> FALSE]

InitialRobot(config) ==
  [pos               |-> Coord(0, 0),
   battery           |-> Pct(MAX_BATTERY),
   health            |-> IF config.maxHealth = 0 THEN MAX_HEALTH ELSE config.maxHealth,
   status            |-> "IDLE",
   victimsRescued    |-> 0,
   firesExtinguished |-> 0,
   path              |-> << >>,
   currentGoal       |-> NoCoord]

\* ------------------------------------------------------------------------
\* Observability layer, src/services/telemetry.ts updateMetrics
\* ------------------------------------------------------------------------

\* ROI constants, in cents
COST_PER_STEP == 50

COST_PER_BATTERY_PERCENT == 500

VALUE_PER_RESCUE == 500000

VALUE_PER_HAZARD_CLEARED == 150000

\* The metrics a mission starts with (no battery level recorded yet).
InitialMetrics ==
  [stepsTaken |-> 0, batteryLevel |-> -1, operationalCost |-> 0, valueGenerated |-> 0]

\* batteryLevel is in eighths of a percent, so batteryUsed * COST_PER_BATTERY_PERCENT
\* is in eighths of a cent; the other terms are scaled to the same unit.
updateMetrics(currentMetrics, batteryLevel, exploredCount, totalCells, victimsRescued, firesExtinguished) ==
  LET step        == currentMetrics.stepsTaken + 1
      batteryUsed == Pct(MAX_BATTERY) - batteryLevel
  IN [stepsTaken      |-> step,
      batteryLevel    |-> batteryLevel,
      operationalCost |-> (step * COST_PER_STEP * 8) + (batteryUsed * COST_PER_BATTERY_PERCENT),
      valueGenerated  |-> (victimsRescued * VALUE_PER_RESCUE * 8)
                            + (firesExtinguished * VALUE_PER_HAZARD_CLEARED * 8)]

\* ------------------------------------------------------------------------
\* The App component: handlers, decision application, tick
\* ------------------------------------------------------------------------

\* The tick effect's battery guard: a running loop is stopped as soon as the
\* battery is depleted outside Recharging.
BatteryGuard(running, r) ==
  running /\ ~(r.status # "E-STOP" /\ r.battery <= 0 /\ r.status # "RECHARGING")

\* Telemetry.createLog(source, message, type), without id, time and message
createLog(source, type) == [source |-> source, type |-> type]

\* The "BATTERY DEPLETED" entry of the battery guard, when it stops the loop
GuardLog(running, r) ==
  IF running /\ ~BatteryGuard(running, r)
  THEN << createLog("SAFETY", "ERROR") >>
  ELSE << >>

\* logs after a handler or tick that appended the given entries
log(entries) == IF entries = << >> THEN logs ELSE entries

\* The log initSimulation leaves: "Scenario Loaded"
InitialLogs == << createLog("SIMULATION", "INFO") >>

Init ==
  /\ grid \in ScenarioGrids
  /\ robotConfig \in RobotConfigs
  /\ robot = InitialRobot(robotConfig)
  /\ isRunning = FALSE
  /\ pending = << >>
  /\ requests = 0
  /\ resets = 0
  /\ metrics = InitialMetrics
  /\ call = [fn |-> "none"]
  /\ onboarding = OnboardingHolding(robotConfig)
  /\ wizard = InitialWizard
  /\ logs = InitialLogs

\* RESET button (and scenario change): initSimulation
initSimulation ==
  /\ resets < MaxResets
  /\ resets' = resets + 1
  /\ grid' \in ScenarioGrids
  /\ robot' = InitialRobot(robotConfig)
  /\ isRunning' = FALSE
  /\ pending' = [i \in 1..Len(pending) |-> [pending[i] EXCEPT !.stale = TRUE]]
  /\ metrics' = InitialMetrics
  /\ logs' = InitialLogs
  /\ UNCHANGED << requests, robotConfig, call, onboarding, wizard >>

\* START / PAUSE button, disabled in EmergencyStop
ToggleRunning ==
  /\ robot.status # "E-STOP"
  /\ isRunning' = BatteryGuard(~isRunning, robot)
  /\ logs' = log(GuardLog(~isRunning, robot))
  /\ UNCHANGED << grid, robot, pending, requests, resets, robotConfig, metrics, call, onboarding, wizard >>

handleEmergencyStop ==
  /\ isRunning' = FALSE
  /\ robot' = [robot EXCEPT !.status = "E-STOP", !.path = << >>]
  /\ logs' = << createLog("SAFETY", "ERROR") >>
  /\ UNCHANGED << grid, pending, requests, resets, robotConfig, metrics, call, onboarding, wizard >>

\* The actions the planning layer tells apart; RESCUE and EXTINGUISH take
\* the same branches as MOVE.
DecisionActions == { "MOVE", "EXPLORE", "RECHARGE" }

\* The target coordinates the model lets the oracle name (NoCoord: none).
OracleTargets == { Coord(3, 1), Coord(3, 2), Coord(1, 1), NoCoord }

Decisions == [action : DecisionActions, targetCoordinates : OracleTargets]

\* Lines 167-203 of runIntelligenceLayer: the plans a decision can lead to
\* (several when the exploration target is drawn at random).
PlanningLayer(currentRobot, currentGrid, decision) ==
  IF decision.action = "RECHARGE"
  THEN IF currentRobot.pos = Coord(0, 0)
       THEN { [docked |-> TRUE, nextStatus |-> "RECHARGING", newPath |-> << >>,
               logged |-> << createLog("CONTROL", "INFO") >>] }
       ELSE { [docked |-> FALSE, nextStatus |-> "MOVING",
               newPath |-> planPath(currentRobot.pos, Coord(0, 0), currentGrid),
               logged |-> << createLog("PLANNING", "WARNING") >>] }
  ELSE IF decision.targetCoordinates # NoCoord
  THEN LET newPath == planPath(currentRobot.pos, decision.targetCoordinates, currentGrid)
       IN { [docked |-> FALSE,
             nextStatus |-> IF newPath = << >> THEN "IDLE" ELSE "MOVING",
             newPath |-> newPath,
             logged |-> << createLog("PLANNING",
                                     IF newPath = << >> THEN "WARNING" ELSE "INFO") >>] }
  ELSE IF decision.action = "EXPLORE"
  THEN LET unknownCells == { c \in Coordinates : ~currentGrid[c].revealed }
       IN IF unknownCells # { }
          THEN { [docked |-> FALSE, nextStatus |-> "MOVING",
                  newPath |-> planPath(currentRobot.pos, target, currentGrid),
                  logged |-> << createLog("PLANNING", "INFO") >>] :
                 target \in unknownCells }
          ELSE { [docked |-> FALSE, nextStatus |-> "MOVING", newPath |-> << >>,
                  logged |-> << >>] }
  ELSE { [docked |-> FALSE, nextStatus |-> "MOVING", newPath |-> << >>, logged |-> << >>] }

\* The final state update without the status.
ApplyDecisionKeepStatus(r, decision, plan) ==
  IF plan.docked
  THEN [r EXCEPT !.status = "RECHARGING"]
  ELSE [r EXCEPT !.path = plan.newPath,
                 !.currentGoal = decision.targetCoordinates]

\* The state update that ends runIntelligenceLayer.
ApplyDecision(r, decision, plan) ==
  IF plan.docked
  THEN [r EXCEPT !.status = "RECHARGING"]
  ELSE [r EXCEPT !.status = plan.nextStatus,
                 !.path = plan.newPath,
                 !.currentGoal = decision.targetCoordinates]

RemoveAt(seq, i) == SubSeq(seq, 1, i - 1) \o SubSeq(seq, i + 1, Len(seq))

\* A pending runIntelligenceLayer call resumes after its await with the
\* oracle's decision and runs to its end.
ResolveDecision(i, decision) ==
  /\ i \in 1..Len(pending)
  /\ \E plan \in PlanningLayer(pending[i].currentRobot, pending[i].currentGrid, decision) :
       /\ robot' = ApplyDecision(robot, decision, plan)
       /\ logs' = << createLog("INTELLIGENCE", "SUCCESS") >> \o plan.logged
                    \o GuardLog(isRunning, robot')
  /\ pending' = RemoveAt(pending, i)
  /\ isRunning' = BatteryGuard(isRunning, robot')
  /\ UNCHANGED << grid, requests, resets, robotConfig, metrics, call, onboarding, wizard >>

\* The oracle answers one of the pending requests.
DecisionArrives ==
  \E i \in 1..Len(pending), decision \in Decisions : ResolveDecision(i, decision)

\* The interval exists only while the loop runs outside EmergencyStop.
TickEnabled == isRunning /\ robot.status # "E-STOP"

\* The recharging tick that goes on to the telemetry update.
TickRechargeWithTelemetry ==
  /\ TickEnabled
  /\ robot.status = "RECHARGING"
  /\ LET newBattery == Min(Pct(MAX_BATTERY), robot.battery + Pct(CHARGING_RATE))
     IN robot' = [robot EXCEPT !.battery = newBattery,
                               !.status = IF newBattery >= Pct(MAX_BATTERY)
                                          THEN "IDLE" ELSE @]
  /\ metrics' = updateMetrics(metrics, robot.battery,
                              Cardinality({ c \in Coordinates : grid[c].revealed }),
                              GRID_SIZE * GRID_SIZE,
                              robot.victimsRescued, robot.firesExtinguished)
  /\ logs' = log((IF robot'.status = "IDLE"
                  THEN << createLog("CONTROL", "SUCCESS") >> ELSE << >>)
                 \o GuardLog(isRunning, robot'))
  /\ isRunning' = BatteryGuard(isRunning, robot')
  /\ UNCHANGED << grid, pending, requests, resets, robotConfig, call, onboarding, wizard >>

\* Tick, recharging state
TickRecharge ==
  /\ TickEnabled
  /\ robot.status = "RECHARGING"
  /\ LET newBattery == Min(Pct(MAX_BATTERY), robot.battery + Pct(CHARGING_RATE))
     IN robot' = [robot EXCEPT !.battery = newBattery,
                               !.status = IF newBattery >= Pct(MAX_BATTERY)
                                          THEN "IDLE" ELSE @]
  /\ logs' = log((IF robot'.status = "IDLE"
                  THEN << createLog("CONTROL", "SUCCESS") >> ELSE << >>)
                 \o GuardLog(isRunning, robot'))
  /\ isRunning' = BatteryGuard(isRunning, robot')
  /\ UNCHANGED << grid, pending, requests, resets, robotConfig, metrics, call, onboarding, wizard >>

\* Layer 2 triggers: idle, or nothing left to do and not already planning
NeedsDecision(r) ==
  r.status = "IDLE" \/ (r.path = << >> /\ r.status # "PLANNING")

\* Tick, layers 1 and 2: perception, then a decision request
TickIntelligence ==
  /\ TickEnabled
  /\ robot.status # "RECHARGING"
  /\ NeedsDecision(robot)
  /\ requests < MaxRequests
  /\ grid' = scanEnvironment(grid, robot.pos).newMapState
  /\ IF robot.battery > 0 /\ robot.status # "E-STOP"
     THEN /\ robot' = [robot EXCEPT !.status = "PLANNING"]
          /\ pending' = Append(pending, [currentRobot |-> [pos |-> robot.pos],
                                         currentGrid |-> grid',
                                         stale |-> FALSE])
          /\ requests' = requests + 1
          /\ logs' = << createLog("INTELLIGENCE", "INFO") >>
     ELSE /\ UNCHANGED << robot, pending, requests >>
          /\ logs' = log(GuardLog(isRunning, robot))
  /\ isRunning' = BatteryGuard(isRunning, robot')
  /\ UNCHANGED << resets, robotConfig, metrics, call, onboarding, wizard >>

\* Tick while a decision is awaited: perception only
TickPlanning ==
  /\ TickEnabled
  /\ robot.status = "PLANNING"
  /\ ~NeedsDecision(robot)
  /\ grid' = scanEnvironment(grid, robot.pos).newMapState
  /\ UNCHANGED << robot, isRunning, pending, requests, resets, robotConfig, metrics, call, onboarding, wizard, logs >>

\* Layer 3 is reached
ControlReached ==
  /\ TickEnabled
  /\ robot.status \notin { "RECHARGING", "PLANNING" }
  /\ ~NeedsDecision(robot)

\* The suppression that also drives onto the cell.
SuppressUpdateAdvancing(prev, nextStep, config) ==
  [prev EXCEPT !.pos = nextStep,
               !.battery = @ - (Pct(5) * DrainRateOf(config)) \div 2,
               !.firesExtinguished = @ + 1]

\* setRobot of the fire action: battery - 5 * batteryDrainRate, one more fire
SuppressUpdate(prev, nextStep, config) ==
  [prev EXCEPT !.battery = @ - (Pct(5) * DrainRateOf(config)) \div 2,
               !.firesExtinguished = @ + 1]

\* The rescue that leaves the rescued cell at the head of the path.
RescueUpdateKeepPath(prev, nextStep, config) ==
  [prev EXCEPT !.pos = nextStep,
               !.victimsRescued = @ + 1,
               !.battery = @ - (Pct(10) * DrainRateOf(config)) \div 2]

\* setRobot of the victim action
RescueUpdate(prev, nextStep, config) ==
  [prev EXCEPT !.pos = nextStep,
               !.path = Tail(prev.path),
               !.victimsRescued = @ + 1,
               !.battery = @ - (Pct(10) * DrainRateOf(config)) \div 2]

\* The suppression tick that leaves the fire burning.
TickSuppressKeepFire ==
  /\ ControlReached
  /\ robot.path # << >>
  /\ grid[robot.path[1]].type = "FIRE"
  /\ grid' = scanEnvironment(grid, robot.pos).newMapState
  /\ robot' = SuppressUpdate(robot, robot.path[1], robotConfig)
  /\ logs' = << createLog("CONTROL", "WARNING") >> \o GuardLog(isRunning, robot')
  /\ isRunning' = BatteryGuard(isRunning, robot')
  /\ UNCHANGED << pending, requests, resets, robotConfig, metrics, call, onboarding, wizard >>

\* Tick, fire ahead: suppression in place
TickSuppress ==
  /\ ControlReached
  /\ robot.path # << >>
  /\ grid[robot.path[1]].type = "FIRE"
  /\ grid' = [scanEnvironment(grid, robot.pos).newMapState
                EXCEPT ![robot.path[1]].type = "DEBRIS"]
  /\ robot' = SuppressUpdate(robot, robot.path[1], robotConfig)
  /\ logs' = << createLog("CONTROL", "WARNING") >> \o GuardLog(isRunning, robot')
  /\ isRunning' = BatteryGuard(isRunning, robot')
  /\ UNCHANGED << pending, requests, resets, robotConfig, metrics, call, onboarding, wizard >>

\* The rescue tick that leaves the victim's cell as it is.
TickRescueKeepVictim ==
  /\ ControlReached
  /\ robot.path # << >>
  /\ grid[robot.path[1]].type = "VICTIM"
  /\ grid' = scanEnvironment(grid, robot.pos).newMapState
  /\ robot' = RescueUpdate(robot, robot.path[1], robotConfig)
  /\ logs' = << createLog("CONTROL", "SUCCESS") >> \o GuardLog(isRunning, robot')
  /\ isRunning' = BatteryGuard(isRunning, robot')
  /\ UNCHANGED << pending, requests, resets, robotConfig, metrics, call, onboarding, wizard >>

\* Tick, victim ahead: rescue
TickRescue ==
  /\ ControlReached
  /\ robot.path # << >>
  /\ grid[robot.path[1]].type = "VICTIM"
  /\ grid' = [scanEnvironment(grid, robot.pos).newMapState
                EXCEPT ![robot.path[1]].type = "EMPTY"]
  /\ robot' = RescueUpdate(robot, robot.path[1], robotConfig)
  /\ logs' = << createLog("CONTROL", "SUCCESS") >> \o GuardLog(isRunning, robot')
  /\ isRunning' = BatteryGuard(isRunning, robot')
  /\ UNCHANGED << pending, requests, resets, robotConfig, metrics, call, onboarding, wizard >>

\* Tick, movement control (or the path-finished branch)
TickMove ==
  /\ ControlReached
  /\ robot.path # << >> => grid[robot.path[1]].type \notin { "FIRE", "VICTIM" }
  /\ grid' = scanEnvironment(grid, robot.pos).newMapState
  /\ IF robot.path # << >>
     THEN LET nextStep == robot.path[1]
              controlResult == executeControlStep(robot.pos, nextStep, robot.battery,
                                                  grid[nextStep].type, robotConfig)
          IN IF controlResult.success
             THEN /\ robot' = [robot EXCEPT !.pos = nextStep,
                                            !.path = Tail(robot.path),
                                            !.battery = controlResult.newBattery,
                                            !.status = "MOVING"]
                  /\ logs' = log(GuardLog(isRunning, robot'))
             ELSE /\ robot' = [robot EXCEPT !.path = << >>, !.status = "IDLE"]
                  /\ logs' = << createLog("CONTROL", "ERROR") >>
                               \o GuardLog(isRunning, robot')
     ELSE IF robot.pos = Coord(0, 0) /\ robot.battery < Pct(MAX_BATTERY)
          THEN /\ robot' = [robot EXCEPT !.status = "RECHARGING"]
               /\ logs' = << createLog("CONTROL", "INFO") >>
          ELSE /\ robot' = [robot EXCEPT !.status = "IDLE"]
               /\ logs' = log(GuardLog(isRunning, robot'))
  /\ metrics' = updateMetrics(metrics, robot.battery,
                              Cardinality({ c \in Coordinates : grid[c].revealed }),
                              GRID_SIZE * GRID_SIZE,
                              robot.victimsRescued, robot.firesExtinguished)
  /\ isRunning' = BatteryGuard(isRunning, robot')
  /\ UNCHANGED << pending, requests, resets, robotConfig, call, onboarding, wizard >>

Tick ==
  \/ TickRecharge
  \/ TickIntelligence
  \/ TickPlanning
  \/ TickSuppress
  \/ TickRescue
  \/ TickMove

Next ==
  \/ initSimulation
  \/ ToggleRunning
  \/ handleEmergencyStop
  \/ DecisionArrives
  \/ Tick

Spec == Init /\ [][Next]_vars

\* ------------------------------------------------------------------------
\* Decision orchestrator, src/App.tsx getDecisionFromGemini, followed step by
\* step for the request runIntelligenceLayer is waiting on
\* ------------------------------------------------------------------------

maxAttempts == 3

\* let backoff = 2000, in milliseconds
InitialBackoff == 2000

\* What a generateContent call can end with other than a usable answer: a
\* thrown error (with its status, its code and whether its message holds
\* '429', 'quota' or 'RESOURCE_EXHAUSTED'), an empty response.text, or a text
\* JSON.parse rejects.  The message of the SyntaxError JSON.parse throws is
\* made by the runtime, which quotes the offending text or its position, so
\* it may or may not hold one of the three markers.
OracleFaults ==
  { [kind |-> "error",       status |-> 429, code |-> 0,   marked |-> FALSE],
    [kind |-> "error",       status |-> 0,   code |-> 429, marked |-> FALSE],
    [kind |-> "error",       status |-> 0,   code |-> 0,   marked |-> TRUE],
    [kind |-> "error",       status |-> 500, code |-> 0,   marked |-> FALSE],
    [kind |-> "empty",       status |-> 0,   code |-> 0,   marked |-> FALSE],
    [kind |-> "unparseable", status |-> 0,   code |-> 0,   marked |-> FALSE],
    [kind |-> "unparseable", status |-> 0,   code |-> 0,   marked |-> TRUE] }

\* error.status === 429 || error.code === 429 || (error.message && ...)
isRateLimit(error) == error.status = 429 \/ error.code = 429 \/ error.marked

\* The priorities the model lets the oracle name (MEDIUM is handled as HIGH is:
\* the priority is only logged).
OraclePriorities == { "HIGH", "LOW" }

\* The fallback decision of the catch block.
FaultFallback ==
  [action |-> "EXPLORE", targetCoordinates |-> NoCoord, priority |-> "LOW",
   reasoning |-> "Communication fault or Rate Limit with AI Core. Initiating fallback exploration."]

\* The fallback decision after the loop.
TimeoutFallback ==
  [action |-> "EXPLORE", targetCoordinates |-> NoCoord, priority |-> "LOW",
   reasoning |-> "System Timeout. Fallback active."]

\* The call before getDecisionFromGemini ran for any request.
NoOracleCall ==
  [fn |-> "getDecisionFromGemini", request |-> 0, pc |-> "idle", attempts |-> 0,
   backoff |-> InitialBackoff, invoked |-> 0, waited |-> 0, faults |-> << >>,
   result |-> TimeoutFallback]

\* The loop head: another generateContent call while attempts < maxAttempts,
\* the fallback after the loop otherwise.
LoopHead(c) ==
  IF c.attempts < maxAttempts
  THEN [c EXCEPT !.pc = "calling", !.invoked = @ + 1]
  ELSE [c EXCEPT !.pc = "returned", !.result = TimeoutFallback]

\* The catch block with an attempt budget that is off by one.
CatchBlockOffByOne(c, error) ==
  LET attempts == c.attempts + 1
  IN IF isRateLimit(error) /\ attempts <= maxAttempts
     THEN [c EXCEPT !.attempts = attempts, !.faults = Append(@, error), !.pc = "delay"]
     ELSE [c EXCEPT !.attempts = attempts, !.faults = Append(@, error),
                    !.pc = "returned", !.result = FaultFallback]

\* The catch block: count the attempt, then wait and retry on a rate limit
\* with attempts left, return the fallback otherwise.
CatchBlock(c, error) ==
  LET attempts == c.attempts + 1
  IN IF isRateLimit(error) /\ attempts < maxAttempts
     THEN [c EXCEPT !.attempts = attempts, !.faults = Append(@, error), !.pc = "delay"]
     ELSE [c EXCEPT !.attempts = attempts, !.faults = Append(@, error),
                    !.pc = "returned", !.result = FaultFallback]

\* The decision runIntelligenceLayer reads out of the orchestrator's result.
ToDecision(result) ==
  [action |-> result.action, targetCoordinates |-> result.targetCoordinates]

OracleUnchanged ==
  UNCHANGED << grid, robot, isRunning, pending, requests, resets, robotConfig, metrics,
               onboarding, wizard, logs >>

\* runIntelligenceLayer calls getDecisionFromGemini for the request it issued.
OracleStart ==
  /\ pending # << >>
  /\ call.request # requests
  /\ call' = LoopHead([NoOracleCall EXCEPT !.request = requests])
  /\ OracleUnchanged

\* generateContent answers with a text that parses to a decision.
OracleAnswers ==
  /\ call.pc = "calling"
  /\ \E decision \in Decisions, priority \in OraclePriorities :
       call' = [call EXCEPT !.pc = "returned",
                            !.result = [action |-> decision.action,
                                        targetCoordinates |-> decision.targetCoordinates,
                                        priority |-> priority,
                                        reasoning |-> "oracle"]]
  /\ OracleUnchanged

\* generateContent throws, or its response is empty or unparseable.
OracleFails ==
  /\ call.pc = "calling"
  /\ \E error \in OracleFaults : call' = CatchBlock(call, error)
  /\ OracleUnchanged

\* The wait that keeps the backoff as it was.
DelayElapsesNoDoubling ==
  /\ call.pc = "delay"
  /\ call' = LoopHead([call EXCEPT !.waited = @ + call.backoff])
  /\ OracleUnchanged

\* await delay(backoff); backoff *= 2; continue
DelayElapses ==
  /\ call.pc = "delay"
  /\ call' = LoopHead([call EXCEPT !.waited = @ + call.backoff, !.backoff = @ * 2])
  /\ OracleUnchanged

\* getDecisionFromGemini has returned: runIntelligenceLayer resumes.
OracleResolve ==
  /\ call.pc = "returned"
  /\ call.request = requests
  /\ ResolveDecision(1, ToDecision(call.result))

\* The orchestrator does not read the robot profile: the default one is used.
OracleInit ==
  /\ grid \in ScenarioGrids
  /\ robotConfig = [speedMultiplier |-> 0, batteryDrainRate |-> 0, maxHealth |-> 0]
  /\ robot = InitialRobot(robotConfig)
  /\ isRunning = FALSE
  /\ pending = << >>
  /\ requests = 0
  /\ resets = 0
  /\ metrics = InitialMetrics
  /\ call = NoOracleCall
  /\ onboarding = OnboardingHolding(robotConfig)
  /\ wizard = InitialWizard
  /\ logs = InitialLogs

OracleNext ==
  \/ ToggleRunning
  \/ handleEmergencyStop
  \/ TickIntelligence
  \/ OracleStart
  \/ OracleAnswers
  \/ OracleFails
  \/ DelayElapses
  \/ OracleResolve

\* OracleResolve is enabled exactly here: the planning layer always yields a
\* plan.
ResolveEnabled == call.pc = "returned" /\ call.request = requests /\ pending # << >>

\* Every generateContent call eventually answers or fails, every delay
\* elapses, and a call that may start or resume does.  The last conjunct is
\* WF_vars(OracleResolve) with the enabling condition written out.
OracleSpec ==
  /\ OracleInit
  /\ [][OracleNext]_vars
  /\ WF_vars(OracleStart)
  /\ WF_vars(OracleAnswers \/ OracleFails)
  /\ WF_vars(DelayElapses)
  /\ ([]<>~ResolveEnabled \/ []<><<OracleResolve>>_vars)

\* ------------------------------------------------------------------------
\* Properties of the scheduler
\* ------------------------------------------------------------------------

\* A step that ends a pending runIntelligenceLayer call.
DecisionResolves == Len(pending') < Len(pending)

\* A step taken by RESET.
ResetStep == resets' # resets

\* C1: at most one decision request is outstanding in every reachable state.
C1_SingleRequestInFlight == Len(pending) <= 1

\* C2: a decision that resolves while the status is EmergencyStop is
\* discarded: status, path and currentGoal stay as the emergency stop left
\* them.
C2_DecisionDiscardedAfterEStop ==
  [][(robot.status = "E-STOP" /\ DecisionResolves) =>
       /\ robot'.status = "E-STOP"
       /\ robot'.path = << >>
       /\ robot'.currentGoal = robot.currentGoal]_vars

\* C3: EmergencyStop is terminal: from a state in EmergencyStop every step
\* other than a RESET leaves the status EmergencyStop and position, battery,
\* path and grid unchanged.
C3_EmergencyStopTerminal ==
  [][(robot.status = "E-STOP" /\ ~ResetStep) =>
       /\ robot'.status = "E-STOP"
       /\ robot'.pos = robot.pos
       /\ robot'.battery = robot.battery
       /\ robot'.path = robot.path
       /\ grid' = grid]_vars

\* C4: a resolving decision changes the robot only if the status is still
\* Planning, and never if it was requested before the last RESET.
C4_AppliedOnlyWhilePlanning ==
  [][(DecisionResolves /\ robot' # robot) =>
       /\ robot.status = "PLANNING"
       /\ \A i \in 1..Len(pending) :
            pending' = RemoveAt(pending, i) => ~pending[i].stale]_vars

\* C5: after the battery is depleted outside Recharging no tick executes
\* until a RESET.  The battery rises only in a tick and is at or below 0 only
\* after such a depletion, so the first tick after a depletion starts from a
\* battery at or below 0: the claim says no tick starts there.
C5_NoTickAfterDepletion == [][Tick => robot.battery > 0]_vars

\* C6: the battery stays within [0, MAX_BATTERY] in every reachable state.
C6_BatteryInRange == robot.battery >= 0 /\ robot.battery <= Pct(MAX_BATTERY)

\* C10: within a mission a revealed cell stays revealed: every step other
\* than a RESET keeps each revealed cell revealed.
C10_RevealedMonotonic ==
  [][~ResetStep =>
       \A c \in Coordinates : grid[c].revealed => grid'[c].revealed]_vars

C10_Witness ==
  /\ robot.victimsRescued >= 1
  /\ robot.firesExtinguished >= 1
  /\ robot.pos.x = GRID_SIZE - 1
  /\ \A c \in Coordinates : c.x = 0 => grid[c].revealed

\* C14: within a mission (every step other than a RESET) operationalCost
\* never decreases and valueGenerated never decreases, whatever the battery
\* does between two metric updates.
C14_TotalsNonDecreasing ==
  [][~ResetStep =>
       /\ metrics'.operationalCost >= metrics.operationalCost
       /\ metrics'.valueGenerated >= metrics.valueGenerated]_vars

\* Drain rates are in halves and batteries in eighths of a percent, so a drop
\* of k * batteryDrainRate percent is (k * Pct(DrainRateOf(robotConfig))) / 2.

\* The tick about to run reaches layer 3 with a cell of this type next on the
\* path.
Ahead(type) ==
  ControlReached /\ robot.path # << >> /\ grid[robot.path[1]].type = type

\* C15: a step onto a Wall fails: executeControlStep returns success = FALSE
\* and the battery it was given, and the tick leaves position and battery
\* unchanged, clears the path and sets the status to Idle.
C15_CollisionAborts ==
  [][(Ahead("WALL") /\ Tick) =>
       LET controlResult == executeControlStep(robot.pos, robot.path[1], robot.battery,
                                               "WALL", robotConfig)
       IN /\ controlResult.success = FALSE
          /\ controlResult.newBattery = robot.battery
          /\ robot'.pos = robot.pos
          /\ robot'.battery = robot.battery
          /\ robot'.path = << >>
          /\ robot'.status = "IDLE"]_vars

\* The state a collision tick leaves: Idle without a path, the battery still
\* at the level the tick recorded when it started, next to a Wall.
C15_Witness ==
  /\ robot.status = "IDLE"
  /\ robot.path = << >>
  /\ metrics.stepsTaken >= 2
  /\ metrics.batteryLevel = robot.battery
  /\ robot.battery < Pct(MAX_BATTERY)
  /\ \E c \in Coordinates :
       /\ Abs(c.x - robot.pos.x) + Abs(c.y - robot.pos.y) = 1
       /\ grid[c].type = "WALL"

\* C16: a tick whose next path cell is a Victim performs exactly one rescue:
\* the cell becomes Empty, the robot moves onto it, the cell leaves the head
\* of the path, victimsRescued grows by 1, firesExtinguished is unchanged and
\* the battery drops by 10 * batteryDrainRate.
C16_RescueStep ==
  [][(Ahead("VICTIM") /\ Tick) =>
       /\ grid'[robot.path[1]].type = "EMPTY"
       /\ robot'.pos = robot.path[1]
       /\ robot'.path = Tail(robot.path)
       /\ robot'.victimsRescued = robot.victimsRescued + 1
       /\ robot'.firesExtinguished = robot.firesExtinguished
       /\ robot.battery - robot'.battery = 5 * Pct(DrainRateOf(robotConfig))]_vars

C16_Witness ==
  /\ robot.victimsRescued = 2
  /\ robot.firesExtinguished = 0
  /\ robotConfig.batteryDrainRate = 3
  /\ grid[robot.pos].type = "EMPTY"
  /\ robot.pos = Coord(3, 1)

\* C17: a tick whose next path cell is Fire suppresses it in place: the cell
\* becomes Debris, firesExtinguished grows by 1, the battery drops by
\* 5 * batteryDrainRate, and position, path and victimsRescued are unchanged.
C17_SuppressInPlace ==
  [][(Ahead("FIRE") /\ Tick) =>
       /\ grid'[robot.path[1]].type = "DEBRIS"
       /\ robot'.firesExtinguished = robot.firesExtinguished + 1
       /\ 2 * (robot.battery - robot'.battery) = 5 * Pct(DrainRateOf(robotConfig))
       /\ robot'.pos = robot.pos
       /\ robot'.path = robot.path
       /\ robot'.victimsRescued = robot.victimsRescued]_vars

C17_Witness ==
  /\ robot.firesExtinguished = 1
  /\ robot.path # << >>
  /\ grid[robot.path[1]].type = "DEBRIS"
  /\ robot.path[1] = Coord(3, 2)
  /\ robotConfig.batteryDrainRate = 3

\* C20: in every reachable state the grid has exactly one Start cell, at
\* (0,0).
C20_SingleStartAtOrigin ==
  \A c \in Coordinates : grid[c].type = "START" <=> c = Coord(0, 0)

C20_Witness ==
  /\ resets = 1
  /\ robot.victimsRescued >= 1
  /\ robot.firesExtinguished >= 1
  /\ robot.pos # Coord(0, 0)
  /\ grid[Coord(0, 0)].type = "START"

\* ------------------------------------------------------------------------
\* Properties of the decision orchestrator
\* ------------------------------------------------------------------------

\* The faults the current call has met are all rate-limit faults.
AllThrottled == \A i \in 1..Len(call.faults) : isRateLimit(call.faults[i])

\* C11: a request whose first three attempts all end in a throttling fault
\* has invoked the oracle exactly 3 times and has returned the fallback
\* {action: Explore, priority: Low}; no request ever invokes the oracle more
\* than 3 times or ends otherwise than by returning.
C11_ThreeThrottlesThenFallback ==
  /\ call.invoked <= 3
  /\ call.pc \in { "idle", "calling", "delay", "returned" }
  /\ (Len(call.faults) = 3 /\ AllThrottled) =>
       /\ call.invoked = 3
       /\ call.pc = "returned"
       /\ call.result.action = "EXPLORE"
       /\ call.result.priority = "LOW"

C11_Witness ==
  /\ Len(call.faults) = 3
  /\ AllThrottled
  /\ call.pc = "returned"
  /\ call.waited = 6000
  /\ pending = << >>

\* A fault the claim counts as not throttling: an empty response, a response
\* that cannot be parsed, or a thrown error without a rate-limit mark.
NotThrottling(error) ==
  error.kind \in { "empty", "unparseable" } \/ ~isRateLimit(error)

\* C12: once an attempt ends in a fault that is not a throttling fault the
\* request returns the fallback {Explore, Low, no target} without another
\* attempt, whichever attempt it was.
C12_OtherFaultNoRetry ==
  (call.faults # << >> /\ NotThrottling(call.faults[Len(call.faults)])) =>
     /\ call.pc = "returned"
     /\ call.invoked = Len(call.faults)
     /\ call.result.action = "EXPLORE"
     /\ call.result.priority = "LOW"
     /\ call.result.targetCoordinates = NoCoord

PlanVaried == { Coord(1, 1), Coord(2, 1), Coord(0, 2), Coord(2, 2), Coord(1, 3) }

PlanKinds == { Cell("EMPTY", TRUE), Cell("DEBRIS", TRUE), Cell("WALL", TRUE),
               Cell("WALL", FALSE) }

PlanWorlds ==
  { [c \in Coordinates |->
       IF c \in PlanVaried THEN k[c]
       ELSE IF c = Coord(0, 0) THEN Cell("START", TRUE) ELSE Cell("EMPTY", TRUE)] :
    k \in [PlanVaried -> PlanKinds] }

PlanStarts == { Coord(0, 0), Coord(2, 0) }

PlanTargets == { Coord(0, 0), Coord(1, 2), Coord(3, 3) }

Untouched ==
  /\ grid = [c \in Coordinates |-> Cell("EMPTY", FALSE)]
  /\ robot = [status |-> "IDLE"]
  /\ isRunning = FALSE
  /\ pending = << >>
  /\ requests = 0
  /\ resets = 0
  /\ robotConfig = [speedMultiplier |-> 0, batteryDrainRate |-> 0, maxHealth |-> 0]
  /\ metrics = InitialMetrics
  /\ onboarding = InitialOnboarding
  /\ wizard = InitialWizard
  /\ logs = InitialLogs

PlanInit ==
  /\ Untouched
  /\ \E s \in PlanStarts, t \in PlanTargets, w \in PlanWorlds :
       call = [fn |-> "planPath", start |-> s, target |-> t, worldModel |-> w,
               done |-> FALSE, path |-> << >>]

PlanCall ==
  /\ call.done = FALSE
  /\ call' = [call EXCEPT !.done = TRUE,
                          !.path = planPath(call.start, call.target, call.worldModel)]
  /\ UNCHANGED << grid, robot, isRunning, pending, requests, resets, robotConfig, metrics,
               onboarding, wizard, logs >>

PlanNext == PlanCall

PlanSpec == PlanInit /\ [][PlanNext]_vars

\* ------------------------------------------------------------------------
\* Direct calls of planPath on obstacle-free grids of uniform cost
\* ------------------------------------------------------------------------

\* An obstacle-free grid: Start at the origin, Empty elsewhere, optionally a
\* Victim (same movement cost) at one cell, either fully revealed or with
\* only the initial patch revealed.
FreeWorld(victim, allRevealed) ==
  [c \in Coordinates |->
     Cell(IF c = Coord(0, 0) THEN "START" ELSE IF c = victim THEN "VICTIM" ELSE "EMPTY",
          allRevealed \/ (c.x < 2 /\ c.y < 2))]

FreeInit ==
  /\ Untouched
  /\ \E s \in Coordinates, t \in Coordinates, r \in BOOLEAN :
       \E v \in { t, NoCoord } :
         call = [fn |-> "planPath", start |-> s, target |-> t,
                 worldModel |-> FreeWorld(v, r), done |-> FALSE, path |-> << >>]

FreeSpec == FreeInit /\ [][PlanNext]_vars

\* ------------------------------------------------------------------------
\* planPath called for the same start and target on the grids of two missions
\* ------------------------------------------------------------------------

\* Cells whose content varies over the family; every other cell is Empty
\* (Start at the origin) and revealed only in the initial patch.
FogVaried == { Coord(2, 0), Coord(1, 2) }

FogKinds == { Cell("EMPTY", FALSE), Cell("DEBRIS", FALSE), Cell("WALL", FALSE),
              Cell("DEBRIS", TRUE) }

FogWorlds ==
  { [c \in Coordinates |->
       IF c \in FogVaried THEN k[c] ELSE FreeWorld(NoCoord, FALSE)[c]] :
    k \in [FogVaried -> FogKinds] }

FogTargets == { Coord(3, 0), Coord(1, 3) }

FogInit ==
  /\ Untouched
  /\ \E t \in FogTargets, w \in FogWorlds, o \in FogWorlds :
       call = [fn |-> "planPair", start |-> Coord(0, 0), target |-> t,
               worldModel |-> w, other |-> o, pc |-> "first",
               path |-> << >>, otherPath |-> << >>]

FogFirst ==
  /\ call.pc = "first"
  /\ call' = [call EXCEPT !.pc = "second",
                          !.path = planPath(call.start, call.target, call.worldModel)]
  /\ UNCHANGED << grid, robot, isRunning, pending, requests, resets, robotConfig, metrics,
               onboarding, wizard, logs >>

FogSecond ==
  /\ call.pc = "second"
  /\ call' = [call EXCEPT !.pc = "done",
                          !.otherPath = planPath(call.start, call.target, call.other)]
  /\ UNCHANGED << grid, robot, isRunning, pending, requests, resets, robotConfig, metrics,
               onboarding, wizard, logs >>

FogNext ==
  \/ FogFirst
  \/ FogSecond

FogSpec == FogInit /\ [][FogNext]_vars

\* ------------------------------------------------------------------------
\* Direct calls of executeControlStep
\* ------------------------------------------------------------------------

\* Battery levels a step can start from, in eighths of a percent: 0.5%, 1%,
\* 5%, 10% and a full battery.
StepBatteries == { 4, 8, 40, 80, Pct(MAX_BATTERY) }

\* Profiles: speedMultiplier 0.5 .. 2.5 and batteryDrainRate 0.5 .. 2.0 in
\* halves (the highest of each lies above the documented range), or unset.
StepConfigs ==
  [speedMultiplier : { 0, 1, 2, 3, 4, 5 }, batteryDrainRate : { 0, 1, 2, 3, 4 }, maxHealth : { 0 }]

StepInit ==
  /\ Untouched
  /\ \E t \in CellType, b \in StepBatteries, c \in StepConfigs :
       call = [fn |-> "executeControlStep", currentPos |-> Coord(0, 0),
               nextPos |-> Coord(1, 0), currentBattery |-> b, cellType |-> t,
               config |-> c, done |-> FALSE,
               result |-> [success |-> FALSE, newBattery |-> b, message |-> ""]]

StepCall ==
  /\ call.done = FALSE
  /\ call' = [call EXCEPT !.done = TRUE,
                          !.result = executeControlStep(call.currentPos, call.nextPos,
                                                        call.currentBattery, call.cellType,
                                                        call.config)]
  /\ UNCHANGED << grid, robot, isRunning, pending, requests, resets, robotConfig, metrics,
               onboarding, wizard, logs >>

StepNext == StepCall

StepSpec == StepInit /\ [][StepNext]_vars

\* ------------------------------------------------------------------------
\* planPath step by step: one action per iteration of the while loop's head
\* and one per iteration of the neighbour loop
\* ------------------------------------------------------------------------

\* All revealed; walls at (1,1), (0,2), (2,2) and debris at (2,1):
\*     S . . .
\*     . W D .
\*     W . W .
\*     . . . .
DetourWorld ==
  [c \in Coordinates |->
     Cell(IF c = Coord(0, 0) THEN "START"
          ELSE IF c \in { Coord(1, 1), Coord(0, 2), Coord(2, 2) } THEN "WALL"
          ELSE IF c = Coord(2, 1) THEN "DEBRIS" ELSE "EMPTY", TRUE)]

\* All revealed; (3,3) is walled off.
WalledOffWorld ==
  [c \in Coordinates |->
     Cell(IF c = Coord(0, 0) THEN "START"
          ELSE IF c \in { Coord(2, 3), Coord(3, 2) } THEN "WALL" ELSE "EMPTY", TRUE)]

SearchWorlds ==
  ScenarioGrids \cup { DetourWorld, WalledOffWorld, FreeWorld(NoCoord, TRUE) }

SearchStarts == { Coord(0, 0), Coord(2, 0) }

\* Targets: two cells, a cell that is a revealed Wall in two of the worlds,
\* and coordinates outside the grid.
SearchTargets == { Coord(1, 2), Coord(3, 3), Coord(1, 1), NoCoord }

\* `call` holds the locals of planPath (openList, closedList, currentNode, the
\* index k of the neighbour offset), the number of nodes shifted off the open
\* list and expanded, and the coordinates pushed onto the open list, in order.
SearchInit ==
  /\ Untouched
  /\ \E start \in SearchStarts, target \in SearchTargets, worldModel \in SearchWorlds :
       LET startNode == [x |-> start.x, y |-> start.y, g |-> 0, h |-> 0, f |-> 0,
                         parent |-> << >>]
       IN call = [fn |-> "planPath", start |-> start, target |-> target,
                  worldModel |-> worldModel, pc |-> "while",
                  openList |-> << startNode >>, closedList |-> {},
                  currentNode |-> startNode, k |-> 1,
                  expanded |-> 0, pushed |-> << start >>, path |-> << >>]

\* while (openList.length > 0): sort, shift, goal check, closedList.add
SearchPop ==
  /\ call.fn = "planPath"
  /\ call.pc = "while"
  /\ IF call.openList = << >>
     THEN call' = [call EXCEPT !.pc = "returned", !.path = << >>]
     ELSE LET sorted      == SortByF(call.openList)
              currentNode == Head(sorted)
          IN IF currentNode.x = call.target.x /\ currentNode.y = call.target.y
             THEN call' = [call EXCEPT !.pc = "returned",
                                       !.openList = Tail(sorted),
                                       !.currentNode = currentNode,
                                       !.path = ReconstructPath(currentNode)]
             ELSE call' = [call EXCEPT !.pc = "for",
                                       !.openList = Tail(sorted),
                                       !.currentNode = currentNode,
                                       !.closedList = @ \cup { Coord(currentNode.x,
                                                                     currentNode.y) },
                                       !.k = 1,
                                       !.expanded = @ + 1]
  /\ UNCHANGED << grid, robot, isRunning, pending, requests, resets, robotConfig, metrics,
                  onboarding, wizard, logs >>

\* for (const offset of neighbors): one iteration
SearchVisit ==
  /\ call.fn = "planPath"
  /\ call.pc = "for"
  /\ LET openList == VisitNeighbor(call.openList, call.closedList, call.currentNode,
                                   call.target, call.worldModel, call.k)
     IN call' = [call EXCEPT
                   !.openList = openList,
                   !.pushed = IF Len(openList) > Len(call.openList)
                              THEN Append(@, Coord(openList[Len(openList)].x,
                                                   openList[Len(openList)].y))
                              ELSE @,
                   !.k = @ + 1,
                   !.pc = IF call.k = Len(neighbors) THEN "while" ELSE "for"]
  /\ UNCHANGED << grid, robot, isRunning, pending, requests, resets, robotConfig, metrics,
                  onboarding, wizard, logs >>

SearchNext == SearchPop \/ SearchVisit

\* The loop runs on: a call that can take a step takes it.
SearchSpec == SearchInit /\ [][SearchNext]_vars /\ WF_vars(SearchNext)

\* ------------------------------------------------------------------------
\* initSimulation step by step: the map loop, then placeRandom for victims
\* and for fires, one action per iteration of its while loop
\* ------------------------------------------------------------------------

\* placeRandom's cap on attempts: 1000 in the program, scaled down.
PLACE_ATTEMPTS == 4

\* Outcomes of the map loop: the layout of the mission model, an empty map,
\* and a map with debris and a wall on the rim.
GenBases ==
  { GeneratedGrid({ Coord(1, 1), Coord(3, 3) }, { Coord(2, 1) }, {}, {}),
    GeneratedGrid({}, {}, {}, {}),
    GeneratedGrid({ Coord(3, 0) }, { Coord(0, 3), Coord(3, 1) }, {}, {}) }

\* victimCount and fireCount of the scenarios the model generates for.
GenScenarios ==
  { [victimCount |-> 2, fireCount |-> 1],
    [victimCount |-> 0, fireCount |-> 2],
    [victimCount |-> 5, fireCount |-> 0] }

PlaceableAnyEmpty(newGrid, rx, ry) == newGrid[Coord(rx, ry)].type = "EMPTY"

\* newGrid[ry][rx].type === EMPTY && (rx > 2 || ry > 2)
Placeable(newGrid, rx, ry) ==
  newGrid[Coord(rx, ry)].type = "EMPTY" /\ (rx > 2 \/ ry > 2)

\* `call` holds the scenario, the map as the map loop left it (base), newGrid,
\* and the locals of the running placeRandom(type, count).
GenInit ==
  /\ Untouched
  /\ \E base \in GenBases, scenario \in GenScenarios :
       call = [fn |-> "initSimulation", scenario |-> scenario, base |-> base,
               newGrid |-> base, type |-> "VICTIM", count |-> scenario.victimCount,
               placed |-> 0, attempts |-> 0, pc |-> "placing"]

\* One iteration of placeRandom's loop with its two random draws
PlaceAttempt ==
  /\ call.fn = "initSimulation"
  /\ call.pc = "placing"
  /\ call.placed < call.count /\ call.attempts < PLACE_ATTEMPTS
  /\ \E rx \in 0..(GRID_SIZE - 1), ry \in 0..(GRID_SIZE - 1) :
       call' = IF Placeable(call.newGrid, rx, ry)
               THEN [call EXCEPT !.attempts = @ + 1,
                                 !.newGrid[Coord(rx, ry)].type = call.type,
                                 !.placed = @ + 1]
               ELSE [call EXCEPT !.attempts = @ + 1]
  /\ UNCHANGED << grid, robot, isRunning, pending, requests, resets, robotConfig, metrics,
                  onboarding, wizard, logs >>

\* placeRandom returns: the fires follow the victims, setGrid follows the fires
PlaceReturn ==
  /\ call.fn = "initSimulation"
  /\ call.pc = "placing"
  /\ ~(call.placed < call.count /\ call.attempts < PLACE_ATTEMPTS)
  /\ call' = IF call.type = "VICTIM"
             THEN [call EXCEPT !.type = "FIRE", !.count = call.scenario.fireCount,
                               !.placed = 0, !.attempts = 0]
             ELSE [call EXCEPT !.pc = "done"]
  /\ UNCHANGED << grid, robot, isRunning, pending, requests, resets, robotConfig, metrics,
                  onboarding, wizard, logs >>

GenNext == PlaceAttempt \/ PlaceReturn

\* The loops run on: a call that can take a step takes it.
GenSpec == GenInit /\ [][GenNext]_vars /\ WF_vars(GenNext)

\* ------------------------------------------------------------------------
\* Direct calls of scanEnvironment, the second on the result of the first
\* ------------------------------------------------------------------------

\* Cell types of the scanned grids: the generated layout of the mission
\* model, or walls and hazards on both diagonals.
ScanTypes ==
  { [c \in Coordinates |-> g[c].type] : g \in ScenarioGrids }
  \cup { [c \in Coordinates |->
            IF c = Coord(0, 0) THEN "START"
            ELSE IF c.x = c.y THEN "WALL"
            ELSE IF c.x + c.y = GRID_SIZE - 1 THEN "FIRE" ELSE "EMPTY"] }

\* Fog patterns: nothing revealed, the initial patch, one column, everything.
ScanFogs ==
  { [c \in Coordinates |-> FALSE],
    [c \in Coordinates |-> c.x < 2 /\ c.y < 2],
    [c \in Coordinates |-> c.x = GRID_SIZE - 1],
    [c \in Coordinates |-> TRUE] }

ScanInit ==
  /\ Untouched
  /\ \E types \in ScanTypes, fog \in ScanFogs, robotPos \in Coordinates :
       LET truthGrid == [c \in Coordinates |->
                           [type |-> types[c], revealed |-> fog[c],
                            difficulty |-> MOVEMENT_COST(types[c])]]
       IN call = [fn |-> "scanEnvironment", truthGrid |-> truthGrid, robotPos |-> robotPos,
                  scans |-> 0, before |-> truthGrid,
                  result |-> [readings |-> << >>, newMapState |-> truthGrid]]

ScanCall ==
  /\ call.scans < 2
  /\ LET result == scanEnvironment(call.truthGrid, call.robotPos)
     IN call' = [call EXCEPT !.scans = @ + 1,
                             !.before = call.truthGrid,
                             !.result = result,
                             !.truthGrid = result.newMapState]
  /\ UNCHANGED << grid, robot, isRunning, pending, requests, resets, robotConfig, metrics,
                  onboarding, wizard, logs >>

ScanNext == ScanCall

ScanSpec == ScanInit /\ [][ScanNext]_vars

\* ------------------------------------------------------------------------
\* Onboarding store, src/store/onboardingStore.ts
\* ------------------------------------------------------------------------

\* The mission state, which the store and the wizard do not touch.
MissionUnchanged == UNCHANGED << grid, robot, isRunning, pending, requests, resets, metrics, logs >>

completeOnboardingFlagOnly(scenario, profile) ==
  /\ onboarding' = [onboarding EXCEPT !.hasCompletedOnboarding = TRUE]
  /\ robotConfig' = robotConfig

\* completeOnboarding(scenario, robot): one set() of the three fields
completeOnboarding(scenario, profile) ==
  /\ onboarding' = [hasCompletedOnboarding |-> TRUE, scenarioConfig |-> scenario]
  /\ robotConfig' = profile

\* resetOnboarding: one set() of the three fields
resetOnboarding ==
  /\ onboarding' = [hasCompletedOnboarding |-> FALSE, scenarioConfig |-> NoScenario]
  /\ robotConfig' = NoRobot

\* Robot profiles handed to the store directly: speedMultiplier 0.5 .. 2.0 and
\* batteryDrainRate 0.5 .. 1.5 in halves, maxHealth 80 .. 120.
StoreRobots ==
  [speedMultiplier : { 1, 2, 3, 4 }, batteryDrainRate : { 1, 2, 3 }, maxHealth : { 80, 100, 120 }]

StoreInit ==
  /\ Untouched
  /\ call = [fn |-> "none"]

StoreComplete ==
  /\ \E scenario \in SCENARIOS, profile \in StoreRobots :
       /\ completeOnboarding(scenario, profile)
       /\ call' = [fn |-> "completeOnboarding", scenario |-> scenario, robot |-> profile]
  /\ MissionUnchanged
  /\ UNCHANGED wizard

StoreReset ==
  /\ resetOnboarding
  /\ call' = [fn |-> "resetOnboarding"]
  /\ MissionUnchanged
  /\ UNCHANGED wizard

StoreNext == StoreComplete \/ StoreReset

StoreSpec == StoreInit /\ [][StoreNext]_vars

\* ------------------------------------------------------------------------
\* Onboarding wizard: WizardModal with WelcomeStep, ScenarioStep, RobotStep
\* `call` holds the last handler of a step component that ran and the prop
\* callback it invoked ("none" when it returned without invoking one).
\* ------------------------------------------------------------------------

\* WizardModal.handleNext; the step component mounted next starts with
\* showValidation = false
handleNext(w) == [w EXCEPT !.currentStep = @ + 1, !.showValidation = FALSE]

\* WizardModal.handlePrevious
handlePrevious(w) == [w EXCEPT !.currentStep = @ - 1, !.showValidation = FALSE]

\* WelcomeStep: its button calls onNext
WelcomeNext ==
  /\ ~onboarding.hasCompletedOnboarding
  /\ wizard.currentStep = 0
  /\ wizard' = handleNext(wizard)
  /\ call' = [fn |-> "WelcomeStep.onNext", callback |-> "onNext"]
  /\ UNCHANGED << onboarding, robotConfig >>
  /\ MissionUnchanged

\* ScenarioStep.handleSelect: onSelect is WizardModal's setSelectedScenario
ScenarioSelect ==
  /\ ~onboarding.hasCompletedOnboarding
  /\ wizard.currentStep = 1
  /\ \E scenario \in SCENARIOS :
       wizard' = [wizard EXCEPT !.selectedScenario = scenario, !.showValidation = FALSE]
  /\ call' = [fn |-> "ScenarioStep.handleSelect", callback |-> "onSelect"]
  /\ UNCHANGED << onboarding, robotConfig >>
  /\ MissionUnchanged

ScenarioStepHandleNextUnguarded(selected) ==
  [showValidation |-> FALSE, callback |-> "onNext"]

\* ScenarioStep.handleNext: the flag it sets and the callback it invokes
ScenarioStepHandleNext(selected) ==
  IF selected = NoScenario
  THEN [showValidation |-> TRUE, callback |-> "none"]
  ELSE [showValidation |-> FALSE, callback |-> "onNext"]

ScenarioNext ==
  /\ ~onboarding.hasCompletedOnboarding
  /\ wizard.currentStep = 1
  /\ LET h == ScenarioStepHandleNext(wizard.selectedScenario)
         w == [wizard EXCEPT !.showValidation = h.showValidation]
     IN /\ wizard' = IF h.callback = "onNext" THEN handleNext(w) ELSE w
        /\ call' = [fn |-> "ScenarioStep.handleNext", callback |-> h.callback]
  /\ UNCHANGED << onboarding, robotConfig >>
  /\ MissionUnchanged

\* ScenarioStep and RobotStep: the Previous button calls onPrevious
StepPrevious ==
  /\ ~onboarding.hasCompletedOnboarding
  /\ wizard.currentStep \in { 1, 2 }
  /\ wizard' = handlePrevious(wizard)
  /\ call' = [fn |-> "onPrevious", callback |-> "onPrevious"]
  /\ UNCHANGED << onboarding, robotConfig >>
  /\ MissionUnchanged

\* RobotStep.handleSelect: onSelect is WizardModal's setSelectedRobot
RobotSelect ==
  /\ ~onboarding.hasCompletedOnboarding
  /\ wizard.currentStep = 2
  /\ \E profile \in ROBOT_TYPES :
       wizard' = [wizard EXCEPT !.selectedRobot = profile, !.showValidation = FALSE]
  /\ call' = [fn |-> "RobotStep.handleSelect", callback |-> "onSelect"]
  /\ UNCHANGED << onboarding, robotConfig >>
  /\ MissionUnchanged

\* RobotStep.handleLaunch: the flag it sets and the callback it invokes
RobotStepHandleLaunch(selected) ==
  IF selected = NoRobot
  THEN [showValidation |-> TRUE, callback |-> "none"]
  ELSE [showValidation |-> FALSE, callback |-> "onLaunch"]

\* The Launch button. onLaunch is WizardModal.handleLaunch; once the store
\* holds hasCompletedOnboarding the App unmounts the wizard, and a later
\* mount starts from the initial wizard state.
RobotLaunch ==
  /\ ~onboarding.hasCompletedOnboarding
  /\ wizard.currentStep = 2
  /\ LET h == RobotStepHandleLaunch(wizard.selectedRobot)
     IN /\ call' = [fn |-> "RobotStep.handleLaunch", callback |-> h.callback]
        /\ IF /\ h.callback = "onLaunch"
              /\ wizard.selectedScenario # NoScenario
              /\ wizard.selectedRobot # NoRobot
           THEN /\ completeOnboarding(wizard.selectedScenario, wizard.selectedRobot)
                /\ wizard' = InitialWizard
           ELSE /\ wizard' = [wizard EXCEPT !.showValidation = h.showValidation]
                /\ UNCHANGED << onboarding, robotConfig >>
  /\ MissionUnchanged

\* App.handleResetOnboarding, offered once the wizard is gone
handleResetOnboarding ==
  /\ onboarding.hasCompletedOnboarding
  /\ resetOnboarding
  /\ call' = [fn |-> "handleResetOnboarding", callback |-> "none"]
  /\ UNCHANGED wizard
  /\ MissionUnchanged

WizardInit ==
  /\ Untouched
  /\ call = [fn |-> "none", callback |-> "none"]

WizardNext ==
  \/ WelcomeNext
  \/ ScenarioSelect
  \/ ScenarioNext
  \/ StepPrevious
  \/ RobotSelect
  \/ RobotLaunch
  \/ handleResetOnboarding

WizardSpec == WizardInit /\ [][WizardNext]_vars

\* ------------------------------------------------------------------------
\* Reference definitions for the planner's properties (independent of the
\* search above)
\* ------------------------------------------------------------------------

RevealedWall(w, c) == w[c].type = "WALL" /\ w[c].revealed

Adjacent(a, b) == Abs(a.x - b.x) + Abs(a.y - b.y) = 1

\* Larger than the cost of any simple path.
Infinity == 1000 * GRID_SIZE * GRID_SIZE

MinOf(S) == CHOOSE m \in S : \A n \in S : m <= n

\* One Bellman-Ford round: the cheapest way to enter each cell from a
\* 4-neighbour, entering costs the entered cell's movement difficulty and
\* revealed Walls cannot be entered.
RelaxOnce(d, w) ==
  [c \in Coordinates |->
     IF RevealedWall(w, c) THEN d[c]
     ELSE MinOf({ d[c] } \cup
                { d[n] + MOVEMENT_COST(w[c].type) :
                    n \in { m \in Coordinates : Adjacent(m, c) /\ d[m] < Infinity } })]

RECURSIVE RelaxAll(_, _)
RelaxAll(d, w) ==
  LET e == RelaxOnce(d, w) IN IF e = d THEN d ELSE RelaxAll(e, w)

\* Cheapest total cost from start to every cell (Infinity when unreachable).
MinCost(start, w) ==
  RelaxAll([c \in Coordinates |-> IF c = start THEN 0 ELSE Infinity], w)

RECURSIVE PathCost(_, _)
PathCost(path, w) ==
  IF path = << >> THEN 0
  ELSE MOVEMENT_COST(w[Head(path)].type) + PathCost(Tail(path), w)

CallReachable ==
  /\ call.target \in Coordinates
  /\ MinCost(call.start, call.worldModel)[call.target] < Infinity

PlanDone == call.fn = "planPath" /\ call.done

\* C7: whenever the target is reachable from a different start over cells
\* that are not revealed Walls, planPath returns a non-empty path ending at
\* the target whose total movement cost is the minimum over all such paths.
C7_PlanMinimalCost ==
  (PlanDone /\ call.start # call.target /\ CallReachable) =>
     /\ call.path # << >>
     /\ call.path[Len(call.path)] = call.target
     /\ PathCost(call.path, call.worldModel)
          = MinCost(call.start, call.worldModel)[call.target]

\* C8: a non-empty path returned by planPath excludes the start, ends at the
\* target, starts 4-adjacent to the start, moves by 4-adjacent steps and
\* stays inside the grid; an unreachable target yields the empty path.
C8_PlanPathShape ==
  PlanDone =>
     /\ call.path # << >> =>
          /\ \A i \in 1..Len(call.path) :
               call.path[i] \in Coordinates /\ call.path[i] # call.start
          /\ call.path[Len(call.path)] = call.target
          /\ Adjacent(call.start, call.path[1])
          /\ \A i \in 2..Len(call.path) : Adjacent(call.path[i - 1], call.path[i])
     /\ ~CallReachable => call.path = << >>

C8_Witness ==
  PlanDone /\ Len(call.path) >= 3 /\ call.worldModel[call.path[1]].type = "DEBRIS"

\* C9: no cell of a returned path is a revealed Wall, and unrevealed cells
\* (unrevealed Walls included) never block: a target reachable over cells
\* that are not revealed Walls always gets a path.
C9_Traversability ==
  PlanDone =>
     /\ \A i \in 1..Len(call.path) : ~RevealedWall(call.worldModel, call.path[i])
     /\ (CallReachable /\ call.start # call.target) => call.path # << >>

C9_Witness ==
  /\ PlanDone
  /\ \E i \in 1..Len(call.path) :
       /\ call.worldModel[call.path[i]].type = "WALL"
       /\ ~call.worldModel[call.path[i]].revealed
  /\ \E c \in PlanVaried : RevealedWall(call.worldModel, c)

\* ------------------------------------------------------------------------
\* Properties of the control step and of the planner on free grids
\* ------------------------------------------------------------------------

StepDone == call.fn = "executeControlStep" /\ call.done

\* 0.5 * movementDifficulty * speedMultiplier * batteryDrainRate percent in
\* eighths of a percent (multipliers in halves).
ClaimedDrain(cellType, speed, rate) == MOVEMENT_COST(cellType) * speed * rate

\* What a step from this battery drains under a profile.
Drained(battery, cellType, speed, rate) ==
  battery - executeControlStep(Coord(0, 0), Coord(1, 0), battery, cellType,
                               [speedMultiplier |-> speed, batteryDrainRate |-> rate,
                                maxHealth |-> 0]).newBattery

\* C18 as stated: for every non-Wall cell type and every starting battery the
\* step drains 0.5 * difficulty * speedMultiplier * batteryDrainRate, strictly
\* more under a higher speedMultiplier and under a higher batteryDrainRate.
C18_DrainFormula ==
  (StepDone /\ call.cellType # "WALL") =>
     LET b     == call.currentBattery
         t     == call.cellType
         speed == SpeedOf(call.config)
         rate  == DrainRateOf(call.config)
     IN /\ b - call.result.newBattery = ClaimedDrain(t, speed, rate)
        /\ \A s2 \in 1..4 : s2 > speed => Drained(b, t, s2, rate) > Drained(b, t, speed, rate)
        /\ \A r2 \in 1..3 : r2 > rate => Drained(b, t, speed, r2) > Drained(b, t, speed, rate)

\* C18 amended: the step drains 0.5 * difficulty * speedMultiplier *
\* batteryDrainRate or the whole starting battery, whichever is less; the
\* drain never decreases when one multiplier is raised, and it is strictly
\* higher whenever the starting battery covers the full drain of the higher
\* multiplier (multipliers are positive; an unset one counts as 1.0).  An
\* Empty cell drains 0.5 at 1.0/1.0 and 1.0 at 2.0/1.0 from a battery of at
\* least 1.
C18_DrainFormulaFloored ==
  (StepDone /\ call.cellType # "WALL") =>
     LET b     == call.currentBattery
         t     == call.cellType
         speed == SpeedOf(call.config)
         rate  == DrainRateOf(call.config)
     IN /\ b - call.result.newBattery = Min(b, ClaimedDrain(t, speed, rate))
        /\ \A s2 \in 1..4 : s2 > speed =>
             /\ Drained(b, t, s2, rate) >= Drained(b, t, speed, rate)
             /\ b >= ClaimedDrain(t, s2, rate) =>
                  Drained(b, t, s2, rate) > Drained(b, t, speed, rate)
        /\ \A r2 \in 1..3 : r2 > rate =>
             /\ Drained(b, t, speed, r2) >= Drained(b, t, speed, rate)
             /\ b >= ClaimedDrain(t, speed, r2) =>
                  Drained(b, t, speed, r2) > Drained(b, t, speed, rate)
        /\ (t = "EMPTY" /\ b >= Pct(1)) =>
             /\ Drained(b, t, 2, 2) = 4
             /\ Drained(b, t, 4, 2) = 8

C18_Witness ==
  /\ StepDone
  /\ call.cellType = "DEBRIS"
  /\ call.config.speedMultiplier = 3
  /\ call.config.batteryDrainRate = 3
  /\ call.currentBattery = 8
  /\ call.result.newBattery = 0

\* C19: on an obstacle-free grid of uniform-cost cells the returned path has
\* as many cells as the Manhattan distance between start and target, in
\* particular from (0,0) to a victim on the top row.
C19_FreeGridManhattan ==
  PlanDone =>
     Len(call.path) = Abs(call.start.x - call.target.x) + Abs(call.start.y - call.target.y)

C19_Witness ==
  /\ PlanDone
  /\ call.start = Coord(0, 0)
  /\ call.target = Coord(GRID_SIZE - 1, 0)
  /\ call.worldModel[call.target].type = "VICTIM"
  /\ ~call.worldModel[call.target].revealed
  /\ Len(call.path) = GRID_SIZE - 1

\* ------------------------------------------------------------------------
\* Onboarding store and wizard properties
\* ------------------------------------------------------------------------

\* C21: over any sequence of completeOnboarding and resetOnboarding calls,
\* completeOnboarding(s, r) leaves hasCompletedOnboarding = true,
\* scenarioConfig = s and robotConfig = r, and in every reachable state
\* hasCompletedOnboarding is true with both configs non-null or false with
\* both configs null.
C21_StoreAtomic ==
  /\ call.fn = "completeOnboarding" =>
       /\ onboarding.hasCompletedOnboarding
       /\ onboarding.scenarioConfig = call.scenario
       /\ robotConfig = call.robot
  /\ onboarding.hasCompletedOnboarding =>
       onboarding.scenarioConfig # NoScenario /\ robotConfig # NoRobot
  /\ ~onboarding.hasCompletedOnboarding =>
       onboarding.scenarioConfig = NoScenario /\ robotConfig = NoRobot

\* completeOnboarding has run for the inferno scenario and a profile of
\* speedMultiplier 2.0.
C21_Witness ==
  /\ call.fn = "completeOnboarding"
  /\ onboarding.scenarioConfig = "inferno"
  /\ robotConfig.speedMultiplier = 4

\* C22: going forward from the scenario step with no scenario selected, or
\* launching from the robot step with no robot selected, keeps the step,
\* invokes no forward callback and shows the validation message; the store
\* becomes completed only from a wizard with a scenario and a robot selected,
\* and with exactly those two.
C22_SelectionValidation ==
  [][/\ (ScenarioNext /\ wizard.selectedScenario = NoScenario) =>
          /\ wizard'.currentStep = wizard.currentStep
          /\ call'.callback = "none"
          /\ wizard'.showValidation
          /\ onboarding' = onboarding
     /\ (RobotLaunch /\ wizard.selectedRobot = NoRobot) =>
          /\ wizard'.currentStep = wizard.currentStep
          /\ call'.callback = "none"
          /\ wizard'.showValidation
          /\ onboarding' = onboarding
     /\ (onboarding'.hasCompletedOnboarding /\ ~onboarding.hasCompletedOnboarding) =>
          /\ wizard.selectedScenario # NoScenario
          /\ wizard.selectedRobot # NoRobot
          /\ onboarding'.scenarioConfig = wizard.selectedScenario
          /\ robotConfig' = wizard.selectedRobot]_vars

\* Launch was pressed on the robot step with a scenario but no robot selected.
C22_Witness ==
  /\ call.fn = "RobotStep.handleLaunch"
  /\ call.callback = "none"
  /\ wizard.currentStep = 2
  /\ wizard.selectedScenario # NoScenario
  /\ wizard.selectedRobot = NoRobot
  /\ wizard.showValidation

\* ------------------------------------------------------------------------
\* Robot profile ranges
\* ------------------------------------------------------------------------

\* The nearest value of lo .. hi.
Nearest(v, lo, hi) == Max(lo, Min(hi, v))

\* The profile with every set multiplier moved into its documented range:
\* speedMultiplier 0.5 .. 2.0, batteryDrainRate 0.5 .. 1.5 (in halves).
InRange(config) ==
  [config EXCEPT
     !.speedMultiplier  = IF @ = 0 THEN 0 ELSE Nearest(@, 1, 4),
     !.batteryDrainRate = IF @ = 0 THEN 0 ELSE Nearest(@, 1, 3)]

\* C23: a step under a profile whose speedMultiplier or batteryDrainRate is
\* out of range leaves the battery it would leave under the nearest in-range
\* values.
C23_OutOfRangeClamped ==
  (StepDone /\ call.cellType # "WALL") =>
     call.result.newBattery =
       executeControlStep(call.currentPos, call.nextPos, call.currentBattery,
                          call.cellType, InRange(call.config)).newBattery

\* ------------------------------------------------------------------------
\* State machine properties
\* ------------------------------------------------------------------------

\* C24: a decision applied to a robot in Planning, other than a Recharge
\* decision issued at the charge point, leaves the status Moving exactly when
\* the planned path is non-empty, and Idle with an empty path otherwise.
C24_MovingIffPath ==
  [][(DecisionResolves /\ robot.status = "PLANNING" /\ robot'.status # "RECHARGING") =>
       /\ robot'.status = "MOVING" <=> robot'.path # << >>
       /\ robot'.path = << >> => robot'.status = "IDLE"]_vars

\* C25: a tick of a Moving robot whose path is exhausted sets the status to
\* Recharging at (0,0) with battery below the maximum and to Idle otherwise,
\* and issues no decision request.
C25_PathExhausted ==
  [][(Tick /\ robot.status = "MOVING" /\ robot.path = << >>) =>
       /\ robot'.status = IF robot.pos = Coord(0, 0) /\ robot.battery < Pct(MAX_BATTERY)
                          THEN "RECHARGING" ELSE "IDLE"
       /\ requests' = requests]_vars

\* C26: the tick that suppresses a fire or rescues a victim on the next path
\* cell leaves the status Acting (to return to Moving one tick later).
C26_HazardTickActing ==
  [][(TickSuppress \/ TickRescue) => robot'.status = "ACTING"]_vars

\* C27: a tick in status Recharging adds the charge increment capped at the
\* maximum, sets Idle exactly when the new battery is the maximum, and leaves
\* position, path, goal, health, counters, grid, metrics, the running flag and
\* the decision requests as they were.
C27_RechargeTick ==
  [][(Tick /\ robot.status = "RECHARGING") =>
       /\ robot'.battery = Min(Pct(MAX_BATTERY), robot.battery + Pct(CHARGING_RATE))
       /\ robot'.status = IF robot'.battery = Pct(MAX_BATTERY) THEN "IDLE" ELSE "RECHARGING"
       /\ robot' = [robot EXCEPT !.battery = robot'.battery, !.status = robot'.status]
       /\ grid' = grid
       /\ metrics' = metrics
       /\ isRunning' = isRunning
       /\ pending' = pending
       /\ requests' = requests]_vars

\* The robot went out, came back and was recharged to a full battery.
C27_Witness ==
  /\ robot.status = "IDLE"
  /\ robot.pos = Coord(0, 0)
  /\ robot.battery = Pct(MAX_BATTERY)
  /\ metrics.stepsTaken > 0

\* C28: every tick outside Recharging ends with one telemetry update:
\* stepsTaken, and with it the two histories, grow by one.
C28_TelemetryEveryTick ==
  [][(Tick /\ robot.status # "RECHARGING") =>
       metrics'.stepsTaken = metrics.stepsTaken + 1]_vars

\* ------------------------------------------------------------------------
\* Perception properties
\* ------------------------------------------------------------------------

\* The cell lies within 2 columns and 2 rows of the position.
InSensorWindow(c, pos) == Abs(c.x - pos.x) <= 2 /\ Abs(c.y - pos.y) <= 2

\* C29: after scan(grid, pos) a cell is revealed exactly if it was revealed
\* before or lies in the sensor window; no cell's type or difficulty changes;
\* there is exactly one reading per window cell of the grid and none for any
\* other cell, each with distance |dx| + |dy|; a second scan from the same
\* position returns the grid it was given.
C29_ScanFrame ==
  (call.fn = "scanEnvironment" /\ call.scans >= 1) =>
     LET before   == call.before
         after    == call.result.newMapState
         readings == call.result.readings
         pos      == call.robotPos
     IN /\ \A c \in Coordinates :
             /\ after[c].revealed <=> (before[c].revealed \/ InSensorWindow(c, pos))
             /\ after[c].type = before[c].type
             /\ after[c].difficulty = before[c].difficulty
             /\ Cardinality({ i \in DOMAIN readings : readings[i].coordinates = c })
                  = IF InSensorWindow(c, pos) THEN 1 ELSE 0
        /\ \A i \in DOMAIN readings :
             /\ readings[i].coordinates \in Coordinates
             /\ readings[i].distance = Abs(readings[i].coordinates.x - pos.x)
                                         + Abs(readings[i].coordinates.y - pos.y)
        /\ call.scans = 2 => after = before

\* Two scans from (3,3) of a grid that had only the initial patch revealed:
\* the window is clipped to 9 cells, (0,3) stays hidden.
C29_Witness ==
  /\ call.fn = "scanEnvironment"
  /\ call.scans = 2
  /\ call.robotPos = Coord(3, 3)
  /\ Len(call.result.readings) = 9
  /\ call.truthGrid[Coord(0, 0)].revealed
  /\ call.truthGrid[Coord(1, 1)].revealed
  /\ ~call.truthGrid[Coord(0, 3)].revealed

\* ------------------------------------------------------------------------
\* Orchestrator backoff budget (milliseconds)
\* ------------------------------------------------------------------------

\* C30 as stated: a request whose attempts were all answered with a
\* throttling fault has waited 2 s, 4 s and 8 s, 14 s in total, when it
\* returns the fallback, and no request waits longer than 14 s in total.
C30_FourteenSeconds ==
  /\ call.waited <= 2000 + 4000 + 8000
  /\ (Len(call.faults) = 3 /\ AllThrottled /\ call.pc = "returned") =>
       call.waited = 2000 + 4000 + 8000

\* C30 amended: such a request has waited 2 s after the first fault and 4 s
\* after the second, 6 s in total, and returns the fallback on the third
\* fault without waiting again; every wait is 2 s when it is the first of its
\* request and 4 s when it is the second, and no request waits longer than
\* 6 s in total.
C30_SixSeconds ==
  /\ call.waited \in { 0, 2000, 2000 + 4000 }
  /\ call.pc = "delay" =>
       /\ call.waited \in { 0, 2000 }
       /\ call.backoff = IF call.waited = 0 THEN 2000 ELSE 4000
  /\ (Len(call.faults) = 3 /\ AllThrottled) =>
       /\ call.pc = "returned"
       /\ call.waited = 2000 + 4000
       /\ call.result = FaultFallback

\* The third throttling fault has just returned the fallback, which the
\* pending runIntelligenceLayer call has not applied yet.
C30_Witness ==
  /\ Len(call.faults) = 3
  /\ AllThrottled
  /\ call.pc = "returned"
  /\ call.waited = 6000
  /\ call.backoff = 8000
  /\ pending # << >>

\* ------------------------------------------------------------------------
\* Planner internals
\* ------------------------------------------------------------------------

\* The candidate of the neighbour iteration about to run: its coordinates and
\* g-cost, and whether it reaches the comparison with the open list (it is
\* inside the grid, not closed and not a revealed Wall).
Candidate ==
  LET nx == call.currentNode.x + neighbors[call.k].x
      ny == call.currentNode.y + neighbors[call.k].y
      compared == /\ InBounds(nx, ny)
                  /\ Coord(nx, ny) \notin call.closedList
                  /\ ~(call.worldModel[Coord(nx, ny)].type = "WALL"
                         /\ call.worldModel[Coord(nx, ny)].revealed)
  IN [x |-> nx, y |-> ny, compared |-> compared,
      gCost |-> IF compared
                THEN call.currentNode.g + MOVEMENT_COST(call.worldModel[Coord(nx, ny)].type)
                ELSE 0]

\* The open-list indices of the nodes at the given coordinates.
QueuedAt(openList, x, y) == { i \in 1..Len(openList) : openList[i].x = x /\ openList[i].y = y }

\* C31: a candidate is discarded (the open list stays as it is) exactly when
\* a queued node at its coordinates has a g-cost at or below the candidate's;
\* when the queued g-cost is higher, the open list afterwards holds those
\* coordinates with the candidate's g-cost and the current node as parent.
C31_OpenSetDominance ==
  [][(SearchVisit /\ Candidate.compared) =>
       LET cand   == Candidate
           queued == QueuedAt(call.openList, cand.x, cand.y)
       IN /\ call'.openList = call.openList
               <=> \E i \in queued : call.openList[i].g <= cand.gCost
          /\ (queued # {} /\ \A i \in queued : call.openList[i].g > cand.gCost) =>
               /\ QueuedAt(call'.openList, cand.x, cand.y) # {}
               /\ \A j \in QueuedAt(call'.openList, cand.x, cand.y) :
                    /\ call'.openList[j].g = cand.gCost
                    /\ call'.openList[j].parent
                         = Append(call.currentNode.parent,
                                  Coord(call.currentNode.x, call.currentNode.y))]_vars

\* C39: planPath terminates for every start, target and grid of the model
\* (targets that are a revealed Wall, walled off or outside the grid
\* included); on the way no coordinate is pushed onto the open list twice,
\* every expansion closes a coordinate that was not closed before, and there
\* are at most GRID_SIZE x GRID_SIZE expansions.
C39_PlanTerminates ==
  /\ [](call.fn = "planPath" =>
          /\ \A i, j \in DOMAIN call.pushed : call.pushed[i] = call.pushed[j] => i = j
          /\ call.expanded = Cardinality(call.closedList)
          /\ call.closedList \subseteq Coordinates
          /\ call.expanded <= GRID_SIZE * GRID_SIZE)
  /\ <>(call.fn = "planPath" /\ call.pc = "returned")

\* The search for a target outside the grid has returned the empty path after
\* expanding every cell of an obstacle-free grid once.
C39_Witness ==
  /\ call.fn = "planPath"
  /\ call.pc = "returned"
  /\ call.target = NoCoord
  /\ call.path = << >>
  /\ call.expanded = GRID_SIZE * GRID_SIZE
  /\ Len(call.pushed) = GRID_SIZE * GRID_SIZE

\* ------------------------------------------------------------------------
\* Map generation properties
\* ------------------------------------------------------------------------

\* The cells of the given type.
CellsOfType(g, type) == { c \in Coordinates : g[c].type = type }

\* C32: generation terminates; in the grid it builds (at every point of the
\* placement and at its end) every Victim and Fire cell is outside the
\* initially revealed patch and was Empty after the map loop, every other
\* cell keeps its type, and there are at most victimCount Victim cells and
\* fireCount Fire cells.
C32_GenerationSound ==
  /\ [](call.fn = "initSimulation" =>
          /\ \A c \in Coordinates :
               IF call.newGrid[c].type \in { "VICTIM", "FIRE" }
               THEN ~call.newGrid[c].revealed /\ call.base[c].type = "EMPTY"
               ELSE call.newGrid[c].type = call.base[c].type
          /\ Cardinality(CellsOfType(call.newGrid, "VICTIM")) <= call.scenario.victimCount
          /\ Cardinality(CellsOfType(call.newGrid, "FIRE")) <= call.scenario.fireCount
          /\ call.attempts <= PLACE_ATTEMPTS)
  /\ <>(call.fn = "initSimulation" /\ call.pc = "done")

\* Generation has ended with two victims and one fire placed on the layout
\* of the mission model.
C32_Witness ==
  /\ call.fn = "initSimulation"
  /\ call.pc = "done"
  /\ call.newGrid \in ScenarioGrids

\* ------------------------------------------------------------------------
\* Fault logging
\* ------------------------------------------------------------------------

\* The control step of a movement tick fails.
Collision ==
  /\ TickMove
  /\ robot.path # << >>
  /\ ~executeControlStep(robot.pos, robot.path[1], robot.battery,
                         grid[robot.path[1]].type, robotConfig).success

\* C33: a tick whose control step fails (collision) and a decision that
\* finds no path to its target append a Warning entry; the depletion of the
\* battery outside Recharging and the emergency stop append an Error entry.
C33_FaultSeverity ==
  [][/\ Collision =>
          \E i \in DOMAIN logs' : logs'[i].source = "CONTROL" /\ logs'[i].type = "WARNING"
     /\ (DecisionResolves /\ robot.status = "PLANNING" /\ robot'.status = "IDLE") =>
          \E i \in DOMAIN logs' : logs'[i].source = "PLANNING" /\ logs'[i].type = "WARNING"
     /\ (isRunning /\ ~isRunning' /\ robot'.battery <= 0
          /\ robot'.status \notin { "RECHARGING", "E-STOP" }) =>
          \E i \in DOMAIN logs' : logs'[i].source = "SAFETY" /\ logs'[i].type = "ERROR"
     /\ (robot'.status = "E-STOP" /\ robot.status # "E-STOP") =>
          \E i \in DOMAIN logs' : logs'[i].source = "SAFETY" /\ logs'[i].type = "ERROR"]_vars

\* C34: in every reachable state the cell of the truth grid under the robot
\* is not a Wall, a Fire or a Victim, whatever path the robot is following.
C34_SafeFooting == grid[robot.pos].type \notin { "WALL", "FIRE", "VICTIM" }

\* The robot has left the origin and the next step of its path is a Wall of
\* the truth grid: the path was planned through a cell not revealed then, or
\* on a grid that a reset has replaced since.
C34_Witness ==
  /\ robot.pos # Coord(0, 0)
  /\ robot.path # << >>
  /\ grid[robot.path[1]].type = "WALL"

\* C35: within a mission every change of the robot's position moves it to
\* an in-bounds cell 4-adjacent to the position before; a reset places the
\* robot at (0,0).
C35_StepsAreAdjacent ==
  [][robot'.pos # robot.pos =>
       IF resets' # resets
       THEN robot'.pos = Coord(0, 0)
       ELSE /\ InBounds(robot'.pos.x, robot'.pos.y)
            /\ Adjacent(robot.pos, robot'.pos)]_vars

\* C36: hazards are conserved within a mission. A mission starts with no
\* victim rescued and no fire extinguished; every step that is not a reset
\* keeps victimsRescued plus the number of Victim cells and firesExtinguished
\* plus the number of Fire cells, so both sums stay at the numbers placed at
\* generation; and the only changes of a cell's type are Fire to Debris and
\* Victim to Empty.
C36_HazardConservation ==
  /\ robot.victimsRescued = 0 /\ robot.firesExtinguished = 0
  /\ [][IF resets' # resets
        THEN robot'.victimsRescued = 0 /\ robot'.firesExtinguished = 0
        ELSE /\ robot'.victimsRescued + Cardinality(CellsOfType(grid', "VICTIM"))
                  = robot.victimsRescued + Cardinality(CellsOfType(grid, "VICTIM"))
             /\ robot'.firesExtinguished + Cardinality(CellsOfType(grid', "FIRE"))
                  = robot.firesExtinguished + Cardinality(CellsOfType(grid, "FIRE"))
             /\ \A c \in Coordinates :
                  \/ grid'[c].type = grid[c].type
                  \/ grid[c].type = "FIRE" /\ grid'[c].type = "DEBRIS"
                  \/ grid[c].type = "VICTIM" /\ grid'[c].type = "EMPTY"]_vars

\* A fire has been extinguished and a victim rescued in the same mission.
C36_Witness == robot.victimsRescued > 0 /\ robot.firesExtinguished > 0

\* C37: in every reachable state a robot that is Idle or Planning has an
\* empty path, and a robot that is Recharging has an empty path and stands at
\* (0,0).
C37_StatusPathConsistency ==
  /\ robot.status \in { "IDLE", "PLANNING" } => robot.path = << >>
  /\ robot.status = "RECHARGING" => robot.path = << >> /\ robot.pos = Coord(0, 0)

\* Two grids with the same revealed flags and the same type in every revealed
\* cell.
AgreeOnRevealed(w, o) ==
  \A c \in Coordinates :
    /\ w[c].revealed = o[c].revealed
    /\ w[c].revealed => w[c].type = o[c].type

\* C38: the planner uses only revealed information: on two grids that differ
\* only in the types of unrevealed cells, planPath returns the same path for
\* the same start and target.
C38_RevealedInformationOnly ==
  (/\ call.fn = "planPair"
   /\ call.pc = "done"
   /\ AgreeOnRevealed(call.worldModel, call.other)) => call.path = call.otherPath

\* C40: recharging completes. On every step taken from status Recharging
\* that is neither a reset nor an emergency stop the battery does not
\* decrease and the status stays Recharging or becomes Idle, Idle only with
\* the battery at the maximum; and every tick of the running loop adds the
\* charge increment (up to the maximum), so that Idle with a full battery is
\* reached within ceil((max - battery) / increment) ticks.
C40_RechargingCompletes ==
  [][(robot.status = "RECHARGING" /\ resets' = resets /\ robot'.status # "E-STOP") =>
       /\ robot'.battery >= robot.battery
       /\ robot'.status \in { "RECHARGING", "IDLE" }
       /\ robot'.status = "IDLE" => robot'.battery = Pct(MAX_BATTERY)
       /\ (isRunning /\ ~DecisionResolves /\ robot' # robot) =>
            robot'.battery = Min(Pct(MAX_BATTERY), robot.battery + Pct(CHARGING_RATE))]_vars

====
